---- MODULE Spec2Model ----
(***************************************************************************)
(* Verification model of the RT-4BC viewer (Core/ and Lib/ packages).      *)
(*                                                                         *)
(* Several specifications share one set of variables; each drives one part *)
(* of the program and leaves the rest at its constructed value:            *)
(*   SpecValidate  CoreRasterCalculator.validate_expression on its own     *)
(*   SpecRefl      CoreReflectanceCalculator.calculate_reflectance alone   *)
(*   SpecRaster    the reflectance refresh cycle and the raster store      *)
(*   SpecFrame     frame ingestion, the shared slot, timers and savers     *)
(*   SpecModel     CoreClassifier.load_model / predict_classification      *)
(***************************************************************************)
EXTENDS Integers, Sequences, FiniteSets, TLC

\* Python values are tagged records, so that None differs from an empty list
None == [kind |-> "None"]

\* validate_expression not called yet
NotCalled == <<>>

\* ------------------------------------------------------------------------
\* Bounds of the model
\* ------------------------------------------------------------------------
\* longest generated expression text (beside the named sample texts)
MaxExprLen == 3

\* camera frames delivered in one run
MaxFrames == 2

\* rasters an operator creates in one run
MaxRasters == 2

\* modal dialogs nested in one another
MaxDepth == 1

\* feature layers of a stack
MaxFeatures == 2

\* ------------------------------------------------------------------------
\* Expression text: a sequence of one-character strings
\* ------------------------------------------------------------------------
Letters == {"R", "x", "i", "m", "p", "o", "r", "t", "s", "n", "q"}

Digits == {"0", "1", "2", "3", "4", "5"}

\* \w of the regular expression
WordChars == Letters \cup Digits \cup {"_"}

\* \s of the regular expression and of str.strip()
SpaceChars == {" ", "\t"}

OperatorChars == {"+", "-", "*", "/", "%"}

\* characters of the allow-set [\w\s\+\-\*\/\%\(\)\.]
AllowedChars == WordChars \cup SpaceChars \cup OperatorChars \cup {"(", ")", "."}

BandNames == {<<"R", "1">>, <<"R", "2">>, <<"R", "3">>, <<"R", "4">>}

\* Python: sub in text
Contains(text, sub) ==
  \E i \in 1..(Len(text) - Len(sub) + 1) :
    SubSeq(text, i, i + Len(sub) - 1) = sub

RECURSIVE LStrip(_)
LStrip(text) ==
  IF text # <<>> /\ Head(text) \in SpaceChars THEN LStrip(Tail(text)) ELSE text

RECURSIVE RStrip(_)
RStrip(text) ==
  IF text # <<>> /\ text[Len(text)] \in SpaceChars
  THEN RStrip(SubSeq(text, 1, Len(text) - 1))
  ELSE text

\* Python: text.strip()
Strip(text) == RStrip(LStrip(text))

\* re.compile(r"^[\w\s\+\-\*\/\%\(\)\.]+$").match(text)
AllowedMatch(text) ==
  /\ text # <<>>
  /\ \A i \in 1..Len(text) : text[i] \in AllowedChars

MsgEmpty == "Expression is empty"

MsgInvalidChars == "Expression contains invalid characters"

MsgNoBand == "Expression must reference at least one band (R1-R4)"

\* CoreRasterCalculator.validate_expression: (is_valid, error_message)
validate_expression(expression) ==
  IF Strip(expression) = <<>> THEN <<FALSE, MsgEmpty>>
  ELSE IF ~AllowedMatch(expression) THEN <<FALSE, MsgInvalidChars>>
  ELSE IF ~(\E band \in BandNames : Contains(expression, band))
       THEN <<FALSE, MsgNoBand>>
  ELSE <<TRUE, "">>

\* ------------------------------------------------------------------------
\* Python's reading of an expression text, as eval() on line 64 of
\* Core_RasterCalculation.py does it: tokens, then an arithmetic expression
\* ------------------------------------------------------------------------
\* last index j >= i-1 with text[i..j] all in S
RunEnd(text, i, S) ==
  CHOOSE j \in (i - 1)..Len(text) :
    /\ \A k \in i..j : text[k] \in S
    /\ (j = Len(text) \/ text[j + 1] \notin S)

Token(kind, chars) == [k |-> kind, s |-> chars]

RECURSIVE TokensFrom(_, _)
TokensFrom(text, i) ==
  IF i > Len(text) THEN <<>>
  ELSE LET c == text[i]
           nxt == IF i < Len(text) THEN text[i + 1] ELSE ""
       IN IF c \in SpaceChars THEN TokensFrom(text, i + 1)
          ELSE IF c \in Letters \cup {"_"} THEN
            LET j == RunEnd(text, i, WordChars)
            IN <<Token("name", SubSeq(text, i, j))>> \o TokensFrom(text, j + 1)
          ELSE IF c \in Digits \/ (c = "." /\ nxt \in Digits) THEN
            LET j1 == RunEnd(text, i, Digits)
                j2 == IF j1 < Len(text) /\ text[j1 + 1] = "."
                      THEN RunEnd(text, j1 + 2, Digits) ELSE j1
            IN <<Token("number", SubSeq(text, i, j2))>> \o TokensFrom(text, j2 + 1)
          ELSE IF c \in {"*", "/"} /\ nxt = c THEN
            <<Token("op", <<c, c>>)>> \o TokensFrom(text, i + 2)
          ELSE IF c \in OperatorChars THEN
            <<Token("op", <<c>>)>> \o TokensFrom(text, i + 1)
          ELSE IF c = "(" THEN <<Token("lpar", <<c>>)>> \o TokensFrom(text, i + 1)
          ELSE IF c = ")" THEN <<Token("rpar", <<c>>)>> \o TokensFrom(text, i + 1)
          ELSE IF c = "." THEN <<Token("dot", <<c>>)>> \o TokensFrom(text, i + 1)
          ELSE <<Token("bad", <<c>>)>> \o TokensFrom(text, i + 1)

Tokens(text) == TokensFrom(text, 1)

\* binary operators of Python arithmetic
PyBinaryOps == {<<"+">>, <<"-">>, <<"*">>, <<"/">>, <<"%">>, <<"*", "*">>, <<"/", "/">>}

PyUnaryOps == {<<"+">>, <<"-">>}

\* Each parser returns the index after what it read, or 0 when eval would raise
\* (SyntaxError, NameError for a name outside the namespace, AttributeError or
\* TypeError for an attribute access or call on an array).
RECURSIVE ParseExpr(_, _), ParseRest(_, _), ParseUnary(_, _), ParseAtom(_, _)
ParseAtom(toks, i) ==
  IF i > Len(toks) THEN 0
  ELSE IF toks[i].k = "name" THEN (IF toks[i].s \in BandNames THEN i + 1 ELSE 0)
  ELSE IF toks[i].k = "number" THEN i + 1
  ELSE IF toks[i].k = "lpar" THEN
    LET j == ParseExpr(toks, i + 1)
    IN IF j # 0 /\ j <= Len(toks) /\ toks[j].k = "rpar" THEN j + 1 ELSE 0
  ELSE 0

ParseUnary(toks, i) ==
  IF i <= Len(toks) /\ toks[i].k = "op" /\ toks[i].s \in PyUnaryOps
  THEN ParseUnary(toks, i + 1)
  ELSE ParseAtom(toks, i)

ParseRest(toks, i) ==
  IF i = 0 THEN 0
  ELSE IF i <= Len(toks) /\ toks[i].k = "op" /\ toks[i].s \in PyBinaryOps
  THEN ParseRest(toks, ParseUnary(toks, i + 1))
  ELSE i

ParseExpr(toks, i) == ParseRest(toks, ParseUnary(toks, i))

\* eval(expression, namespace) returns a value (TRUE) or raises (FALSE)
PyEvalOk(text) ==
  LET toks == Tokens(text)
  IN ParseExpr(toks, 1) = Len(toks) + 1

\* ------------------------------------------------------------------------
\* Expression texts an operator can type
\* ------------------------------------------------------------------------
\* "R1 + R2"
ExprR1PlusR2 == <<"R", "1", " ", "+", " ", "R", "2">>

\* "import os"
ExprImportOs == <<"i", "m", "p", "o", "r", "t", " ", "o", "s">>

\* "R1 ** 2"
ExprR1Pow2 == <<"R", "1", " ", "*", "*", " ", "2">>

\* "(R1 - R2) / (R1 + R2)"
ExprNdvi == <<"(", "R", "1", " ", "-", " ", "R", "2", ")", " ", "/", " ", "(", "R", "1", " ", "+", " ", "R", "2", ")">>

\* "R1.x"
ExprAttribute == <<"R", "1", ".", "x">>

\* "xR1"
ExprSubstring == <<"x", "R", "1">>

\* "R1 // 2"
ExprFloorDiv == <<"R", "1", " ", "/", "/", " ", "2">>

\* "np.sqrt(R1)"
ExprCall == <<"n", "p", ".", "s", "q", "r", "t", "(", "R", "1", ")">>

\* "  "
ExprBlank == <<" ", " ">>

\* "" (empty editor)
ExprEmpty == <<>>

\* overlay_expr of ensure_overlay_raster
overlay_expr ==
  <<"R", "1", "/", "/", "4", " ", "+", " ", "R", "2", "/", "/", "4", " ", "+", " ", "R", "3", "/", "/", "4", " ", "+", " ", "R", "4", "/", "/", "4">>

SampleExprs ==
  {ExprR1PlusR2, ExprImportOs, ExprR1Pow2, ExprNdvi, ExprAttribute,
   ExprSubstring, ExprFloorDiv, ExprCall, ExprBlank, ExprEmpty, overlay_expr}

\* characters of the generated texts
GenChars == {"R", "1", "*", "/", "+", " ", ".", "x", "!"}

SeqsUpTo(S, n) == UNION {[1..k -> S] : k \in 0..n}

ExprUniverse == SampleExprs \cup SeqsUpTo(GenChars, MaxExprLen)

\* ------------------------------------------------------------------------
\* Frames and tiles
\* ------------------------------------------------------------------------
FRAME_H == 480

FRAME_W == 640

FULL_W == FRAME_W * 4

\* EXPO_MS in hundredths of a millisecond (0.04 ms is 4)
EXPO_MS == <<4, 15, 52, 108, 224, 448, 903, 1814, 3604, 7299, 14605, 29221>>

EXPO_ABS == <<1, 2, 5, 10, 20, 39, 78, 156, 312, 625, 1250, 2500>>

Bands == 1..4

Min(a, b) == IF a < b THEN a ELSE b

Max(a, b) == IF a > b THEN a ELSE b

\* a numpy array: where its pixels come from, and its shape
Array(src, shape, id) == [kind |-> "ndarray", src |-> src, shape |-> shape, id |-> id]

\* the frame the receiver thread decoded from payload number seq
CameraFrame(seq) == Array(<<"camera">>, <<FRAME_H, FULL_W>>, seq)

\* a reference to the array object at an address of the heap
Ref(addr) == [kind |-> "ref", addr |-> addr]

\* the object a reference names (None for None)
Deref(hp, ref) == IF ref = None THEN None ELSE hp[ref.addr]

\* array[:, lo:hi], lo and hi counted from 0
Columns(array, lo, hi) ==
  LET w == array.shape[2]
      n == Max(0, Min(hi, w) - Min(lo, w))
  IN Array(<<"columns", array.src, lo>>, <<array.shape[1], n>>, array.id)

\* numpy broadcasting of two 2-d shapes succeeds
Broadcastable(s1, s2) ==
  \A d \in 1..2 : s1[d] = s2[d] \/ s1[d] = 1 \/ s2[d] = 1

\* ------------------------------------------------------------------------
\* float(text) of a QLineEdit text
\* ------------------------------------------------------------------------
DigitValue(c) ==
  CASE c = "0" -> 0 [] c = "1" -> 1 [] c = "2" -> 2
    [] c = "3" -> 3 [] c = "4" -> 4 [] c = "5" -> 5

RECURSIVE DigitsValue(_)
DigitsValue(ds) ==
  IF ds = <<>> THEN 0
  ELSE 10 * DigitsValue(SubSeq(ds, 1, Len(ds) - 1)) + DigitValue(ds[Len(ds)])

\* [ok, mant, dec]: the value mant / 10^dec, or ok = FALSE for ValueError
PyFloat(text) ==
  LET t == Strip(text)
      toks == Tokens(t)
  IN IF Len(toks) = 1 /\ toks[1].k = "number" /\ toks[1].s = t
     THEN LET ds == SelectSeq(t, LAMBDA c : c \in Digits)
              dot == IF \E i \in 1..Len(t) : t[i] = "."
                     THEN CHOOSE i \in 1..Len(t) : t[i] = "." ELSE Len(t)
          IN [ok |-> TRUE, mant |-> DigitsValue(ds), dec |-> Len(t) - dot]
     ELSE [ok |-> FALSE, mant |-> 0, dec |-> 0]

\* ------------------------------------------------------------------------
\* CoreReflectanceCalculator.calculate_reflectance
\* ------------------------------------------------------------------------
WarnMissingBackground == "Missing Background"

WarnInvalidParameters == "Invalid Parameters"

NoWarning == ""

\* what one call does: its return value (or an escaping exception), the
\* warning dialog it showed, and warning_invalid_params_shown afterwards
ReflOutcome(result, raised, warning, shown) ==
  [result |-> result, raised |-> raised, warning |-> warning, shown |-> shown]

\* level = max(1, min(12, level)); exp_ms = EXPO_MS[level - 1]
\* level - 1 with no clamp before it
ClampedIndex_Unclamped(level) == level - 1

\* level = max(1, min(12, level)), then the index level - 1
ClampedIndex(level) == Max(1, Min(12, level)) - 1

\* what stands for the IndexError of a list index out of range
IndexError == 0 - 1

\* Python: table[index], a negative index counting from the end
PyIndex(table, index) ==
  IF index \in 0..(Len(table) - 1) THEN table[index + 1]
  ELSE IF index \in (0 - Len(table))..(0 - 1) THEN table[Len(table) + index + 1]
  ELSE IndexError

ExposureMs(value, table) == PyIndex(table, ClampedIndex(value))

\* ref_rad of band i: float(text), 0.0 when float raises
RefRadiance(text) ==
  LET f == PyFloat(text)
  IN IF f.ok THEN <<f.mant, f.dec>> ELSE <<0, 0>>

\* a refusal that hands back the tiles computed so far
Refusal_PartialList(tiles, warning) ==
  ReflOutcome([kind |-> "list", items |-> tiles], FALSE, warning, TRUE)

\* "return None" after the warning of a violated precondition
Refusal(tiles, warning) == ReflOutcome(None, FALSE, warning, TRUE)

\* a validation that forgets the reference radiance
InvalidParameters_ExposureOnly(exp_ms, ref_rad) == exp_ms = 0

\* if exp_ms == 0 or ref_rad == 0
InvalidParameters(exp_ms, ref_rad) == exp_ms = 0 \/ ref_rad[1] = 0

RECURSIVE ReflectanceLoop(_, _, _, _, _, _, _)
ReflectanceLoop(i, tiles, frame, bg, sliders, entries, ctx) ==
  IF i > 4 THEN ReflOutcome([kind |-> "list", items |-> tiles], FALSE, NoWarning, ctx.shown)
  ELSE IF bg[i] = None
  THEN Refusal(tiles, IF ctx.shown THEN NoWarning ELSE WarnMissingBackground)
  ELSE
    LET cam_tile == Columns(frame, (i - 1) * FRAME_W, i * FRAME_W)
        exp_ms == IF i <= Len(sliders) THEN ExposureMs(sliders[i], ctx.table) ELSE 100
        ref_rad == RefRadiance(entries[i])
    IN IF InvalidParameters(exp_ms, ref_rad)
       THEN Refusal(tiles, IF ctx.shown THEN NoWarning ELSE WarnInvalidParameters)
       ELSE IF ~Broadcastable(cam_tile.shape, bg[i].shape)
       THEN ReflOutcome(None, TRUE, NoWarning, ctx.shown)
       ELSE ReflectanceLoop(i + 1,
              Append(tiles, Array(<<"reflectance", cam_tile.src, bg[i].id, exp_ms, ref_rad>>,
                                  cam_tile.shape, frame.id)),
              frame, bg, sliders, entries, ctx)

\* ------------------------------------------------------------------------
\* CoreRasterCalculator.evaluate_expression
\* ------------------------------------------------------------------------
\* "R1 + 1 // int(R1.min())": int is a builtin eval() supplies and min a method
\* of the array, so the text evaluates unless int(R1.min()) is 0, and then the
\* integer floor division raises ZeroDivisionError
ExprIntMin == <<"R", "1", " ", "+", " ", "1", " ", "/", "/", " ", "i", "n", "t", "(",
                "R", "1", ".", "m", "i", "n", "(", ")", ")">>

\* the pixels of the frames: the even-numbered ones hold a band-1 reflectance
\* below 1 somewhere, the odd-numbered ones are at least 1 everywhere
MinBelowOne(tile) == tile.id % 2 = 0

\* eval(expression, namespace) raises on these tiles
EvalRaises(expr, tiles) ==
  IF expr = ExprIntMin THEN MinBelowOne(tiles[1]) ELSE ~PyEvalOk(expr)

\* evaluate_expression without its except clause turning an error into None
evaluate_expression_ErrorAsArray(expr, reflectance_tiles) ==
  IF reflectance_tiles = None THEN None
  ELSE IF Len(reflectance_tiles.items) # 4 THEN None
  ELSE Array(<<"eval", expr, reflectance_tiles.items>>,
             reflectance_tiles.items[1].shape, reflectance_tiles.items[1].id)

\* the array eval() computes: named by the text and the tiles it was bound to
evaluate_expression(expr, reflectance_tiles) ==
  IF reflectance_tiles = None THEN None
  ELSE IF Len(reflectance_tiles.items) # 4 THEN None
  ELSE IF EvalRaises(expr, reflectance_tiles.items)
       THEN None
       ELSE Array(<<"eval", expr, reflectance_tiles.items>>,
                  reflectance_tiles.items[1].shape, reflectance_tiles.items[1].id)

calculate_reflectance(frame, bg, sliders, entries, table, shown) ==
  IF frame = None THEN ReflOutcome(None, FALSE, NoWarning, shown)
  ELSE ReflectanceLoop(1, <<>>, frame, bg, sliders, entries,
                       [table |-> table, shown |-> shown])

\* ------------------------------------------------------------------------
\* State
\* ------------------------------------------------------------------------
VARIABLES
  expression,   \* argument of the validate_expression call under study
  validation    \* its (is_valid, error_message), NotCalled before the call

VARIABLES
  last_fullframe,     \* Core_CameraView.last_fullframe: a reference or None
  heap,               \* the array objects frames refer to, by address
  eventQueue,         \* frame_received signals queued for the main thread
  alignment_enabled,  \* CameraViewerTab.alignment_enabled
  last_aligned_frame, \* CameraViewerTab.last_aligned_frame
  sock,               \* the conflating SUB socket of ZMQReceiverThread.run
  published,          \* frames the camera has published so far
  zmq_thread,         \* where ZMQReceiverThread.run is, the message it holds,
                      \* its interruption flag, and whether sock.close() ran
  modal,              \* main-thread calls suspended in a modal dialog's event loop
  savers,             \* the three CoreRawImageSave objects
  imwrite,            \* what cv2.imwrite does with the save folders as they are
  last_read,          \* the latest frame a consumer took from the slot
  bg_tiles,           \* CoreDarkNoiseEstimator.bg_tiles
  expo_sliders,       \* value() of the 4 exposure sliders
  ref_cam_entries,    \* text() of the 4 reference radiance entries
  EXPO_MS_arg,        \* the EXPO_MS argument of calculate_reflectance
  warning_invalid_params_shown,
  warnings,           \* dialogs shown so far, per category
  refl_return,        \* outcome of the calculate_reflectance call under study
  current_reflectance_tiles,
  reflectance_calculated  \* the last refresh cycle emitted the signal

VARIABLES
  calculated_rasters,
  raster_expressions,
  raster_counter,
  ras_func_txt,             \* text of the expression editor
  ras_calc_list,            \* the dropdown: its items and its current text
  current_displayed_raster,
  validated,                \* texts validate_expression has accepted so far
  unvalidated_evals,        \* texts evaluated before any accepted validation
  last_apply                \* what apply_raster_expression did, until the next
                            \* button or edit of the tab

VARIABLES
  model,          \* CoreClassifier.model
  model_path,     \* CoreClassifier.model_path
  load_return,    \* what the latest load_model returned
  feature_stack,  \* argument of the latest predict_classification
  model_input,    \* the rows that call handed to model.predict
  label_map       \* what that call returned

VARIABLES
  geo_transform,   \* CameraViewerTab.geo_transform: None or its homography_matrices
  dlg,             \* the open ImageAlignmentDialog: its geo_transform.homography_matrices
  config_file,     \* the .ini file save_config_ini wrote last
  saved_matrices,  \* homography_matrices as they were when that file was written
  load_results,    \* what the latest load_config_ini returned
  estimation,      \* outcome of the latest estimation run of the dialog
  failed_keys,     \* keys an estimation of the open dialog has failed for
  warned,          \* keys with a _warned_<key> attribute on the viewer
  signalled        \* keys warned about since their homography last became absent

VARIABLES
  ref_img_dir_path,   \* text of the reference image path entry
  ref_tiles,          \* CoreRefRadianceEstimator.ref_tiles
  last_estimate       \* what the latest estimate_reference_radiance did

VARIABLES
  CAMERA_IP,           \* Core_CameraView.CAMERA_IP
  remote,              \* the latest remote command and how it ended
  expo_status_labels   \* text of the 4 exposure status labels

validateVars == <<expression, validation>>

geoVars == <<geo_transform, dlg, config_file, saved_matrices, load_results,
            estimation, failed_keys, warned, signalled>>

IdleValidate == expression = <<>> /\ validation = NotCalled

calibVars == <<bg_tiles, expo_sliders, ref_cam_entries, EXPO_MS_arg>>

refVars == <<ref_img_dir_path, ref_tiles, last_estimate>>

ctlVars == <<CAMERA_IP, remote, expo_status_labels>>

reflVars == <<warning_invalid_params_shown, warnings, refl_return,
             current_reflectance_tiles, reflectance_calculated>>

rasterVars == <<calculated_rasters, raster_expressions, raster_counter,
               ras_func_txt, ras_calc_list, current_displayed_raster>>

histVars == <<validated, unvalidated_evals, last_apply>>

slotVars == <<last_fullframe, heap, eventQueue>>

alignVars == <<alignment_enabled, last_aligned_frame>>

ingestVars == <<sock, published, zmq_thread>>

saveVars == <<modal, savers, imwrite>>

frameVars == <<slotVars, alignVars, ingestVars, saveVars, last_read>>

modelVars == <<model, model_path, load_return, feature_stack, model_input, label_map>>

vars == <<validateVars, frameVars, calibVars, reflVars, rasterVars, histVars, modelVars,
          geoVars, refVars, ctlVars>>

\* CameraViewerTab.__init__: no alignment dialog opened, nothing saved
\* no camera connected yet, nothing sent, the status labels as designed
IdleControl ==
  /\ CAMERA_IP = None
  /\ remote = NotCalled
  /\ expo_status_labels = [i \in 1..4 |-> <<>>]

\* CoreRefRadianceEstimator.__init__ with no reference image in the folder
IdleRef ==
  /\ ref_img_dir_path = <<>>
  /\ ref_tiles = [i \in 1..4 |-> None]
  /\ last_estimate = NotCalled

IdleGeo ==
  /\ geo_transform = None
  /\ dlg = None
  /\ config_file = None
  /\ saved_matrices = None
  /\ load_results = NotCalled
  /\ estimation = NotCalled
  /\ failed_keys = {}
  /\ warned = {}
  /\ signalled = {}

\* CoreClassifier.__init__, no call made yet
IdleModel ==
  /\ model = None
  /\ model_path = None
  /\ load_return = NotCalled
  /\ feature_stack = None
  /\ model_input = NotCalled
  /\ label_map = NotCalled

WarningCategories == {WarnMissingBackground, WarnInvalidParameters}

\* one more dialog of the category, counted up to 2
Warned(log, category) ==
  IF category = NoWarning THEN log
  ELSE [log EXCEPT ![category] = Min(2, @ + 1)]

\* a background tile as load_reference_image stores it (tile.copy())
BgTile(i) == Array(<<"background", i>>, <<FRAME_H, FRAME_W>>, 0)

IdleCalib ==
  /\ bg_tiles = [i \in Bands |-> None]
  /\ expo_sliders = [i \in Bands |-> 1]
  /\ ref_cam_entries = [i \in Bands |-> <<>>]
  /\ EXPO_MS_arg = EXPO_MS

IdleRefl ==
  /\ warning_invalid_params_shown = FALSE
  /\ warnings = [c \in WarningCategories |-> 0]
  /\ refl_return = NotCalled
  /\ current_reflectance_tiles = None
  /\ reflectance_calculated = FALSE

NoRasters == [n \in {} |-> None]

IdleRaster ==
  /\ calculated_rasters = NoRasters
  /\ raster_expressions = NoRasters
  /\ raster_counter = 0
  /\ ras_func_txt = <<>>
  /\ ras_calc_list = [items |-> <<>>, current |-> <<>>]
  /\ current_displayed_raster = None
  /\ validated = {}
  /\ unvalidated_evals = {}
  /\ last_apply = NotCalled

IdleAlignment ==
  /\ alignment_enabled = FALSE
  /\ last_aligned_frame = None

\* nothing waits in the socket
NoPayload == <<>>

SaverNames == {"raw_save", "reflectance_saver", "raster_saver"}

\* CoreRawImageSave.__init__; write_error_shown is hasattr(self, '_write_error_shown')
NewSaver ==
  [save_dir |-> FALSE, exp_ms100 |-> <<0, 0, 0, 0>>, save_active |-> FALSE,
   write_error_shown |-> FALSE]

\* ZMQReceiverThread(ZMQ_ADDR) started: run() is at the top of its loop
\* others counts the threads started earlier that still run; restarted tells
\* that this thread replaced one start_zmq_streaming had stopped
NewThread ==
  [pc |-> "recv", data |-> NoPayload, interruption |-> FALSE, closed |-> FALSE,
   others |-> 0, restarted |-> FALSE]

IdleIngest ==
  /\ sock = NoPayload
  /\ published = 0
  /\ zmq_thread = NewThread
  /\ last_read = None

IdleSave ==
  /\ modal = <<>>
  /\ savers = [n \in SaverNames |-> NewSaver]
  /\ imwrite = "written"

IdleFrame ==
  /\ last_fullframe = None
  /\ heap = <<>>
  /\ eventQueue = <<>>
  /\ IdleAlignment
  /\ IdleIngest
  /\ IdleSave

\* ------------------------------------------------------------------------
\* SpecValidate: validate_expression applied to every text of the universe
\* ------------------------------------------------------------------------
InitValidate ==
  /\ expression \in ExprUniverse
  /\ validation = NotCalled
  /\ IdleFrame
  /\ IdleCalib
  /\ IdleRefl
  /\ IdleRaster
  /\ IdleModel
  /\ IdleGeo
  /\ IdleRef
  /\ IdleControl

CallValidate ==
  /\ validation = NotCalled
  /\ validation' = validate_expression(expression)
  /\ UNCHANGED <<expression, refVars, ctlVars, frameVars, calibVars, reflVars, rasterVars, histVars,
                 modelVars, geoVars>>

NextValidate == CallValidate

SpecValidate == InitValidate /\ [][NextValidate]_vars

\* ------------------------------------------------------------------------
\* Restricted arithmetic: band names, numeric literals, the binary operators
\* + - * / %, parentheses; no other identifier, attribute access or call
\* ------------------------------------------------------------------------
RestrictedToken(tok) ==
  \/ tok.k = "name" /\ tok.s \in BandNames
  \/ tok.k = "number"
  \/ tok.k = "op" /\ Len(tok.s) = 1 /\ tok.s[1] \in OperatorChars
  \/ tok.k \in {"lpar", "rpar"}

IsRestricted(text) ==
  LET toks == Tokens(text)
  IN /\ \A i \in 1..Len(toks) : RestrictedToken(toks[i])
     /\ \A i \in 2..Len(toks) :
          toks[i].k = "lpar" => toks[i - 1].k \notin {"name", "number", "rpar"}

\* C2: every expression accepted by validate_expression is a restricted
\* arithmetic expression (band names, numeric literals, + - * / %, parentheses);
\* any other identifier, attribute access, call or operator such as ** or //
\* is rejected.
C2_AcceptedIsRestricted ==
  (validation # NotCalled /\ validation[1]) => IsRestricted(expression)

\* ------------------------------------------------------------------------
\* SpecRefl: calculate_reflectance applied to every combination of inputs
\* ------------------------------------------------------------------------
\* entry texts: "0.0", "2.5", "x"
EntryZero == <<"0", ".", "0">>

EntryValid == <<"2", ".", "5">>

EntryText == <<"x">>

EntryTexts == {EntryZero, EntryValid, EntryText}

\* slider values tried, inside and outside 1..12
SliderValues == {0, 12}

\* an exposure table whose first level is 0 ms
ZeroTable == [EXPO_MS EXCEPT ![1] = 0]

InitRefl ==
  /\ IdleValidate
  /\ heap = <<CameraFrame(1)>>
  /\ last_fullframe \in {None, Ref(1)}
  /\ eventQueue = <<>>
  /\ IdleAlignment
  /\ IdleIngest
  /\ IdleSave
  /\ IdleRaster
  /\ IdleModel
  /\ IdleGeo
  /\ IdleRef
  /\ IdleControl
  /\ bg_tiles \in [Bands -> {None}] \cup {[i \in Bands |-> BgTile(i)]}
                  \cup {[[i \in Bands |-> BgTile(i)] EXCEPT ![b] = None] : b \in Bands}
  /\ expo_sliders \in [Bands -> SliderValues]
  /\ ref_cam_entries \in [Bands -> EntryTexts]
  /\ EXPO_MS_arg \in {EXPO_MS, ZeroTable}
  /\ warning_invalid_params_shown \in BOOLEAN
  /\ warnings = [c \in WarningCategories |-> 0]
  /\ refl_return = NotCalled
  /\ current_reflectance_tiles = None
  /\ reflectance_calculated = FALSE

CallCalculateReflectance ==
  /\ refl_return = NotCalled
  /\ LET out == calculate_reflectance(Deref(heap, last_fullframe), bg_tiles, expo_sliders,
                                      ref_cam_entries, EXPO_MS_arg,
                                      warning_invalid_params_shown)
     IN /\ refl_return' = <<out.result>>
        /\ warning_invalid_params_shown' = out.shown
        /\ warnings' = Warned(warnings, out.warning)
  /\ UNCHANGED <<validateVars, modelVars, refVars, ctlVars, geoVars, frameVars, calibVars, rasterVars, histVars,
                 current_reflectance_tiles, reflectance_calculated>>

NextRefl == CallCalculateReflectance

SpecRefl == InitRefl /\ [][NextRefl]_vars

\* the three preconditions of band i
DarkNoiseAbsent(i) == bg_tiles[i] = None

ExposureZero(i) == ExposureMs(expo_sliders[i], EXPO_MS_arg) = 0

RadianceZero(i) == RefRadiance(ref_cam_entries[i])[1] = 0

BandViolates(i) == DarkNoiseAbsent(i) \/ ExposureZero(i) \/ RadianceZero(i)

\* C6: calculate_reflectance returns no result whenever, for any band, the
\* dark-noise tile is absent, the exposure level resolves to 0 ms, or the
\* reference radiance is 0 (an unparsable entry included); one condition in
\* one band, the other bands valid, is enough.
C6_RefusesOnAnyViolation ==
  (refl_return # NotCalled /\ \E i \in Bands : BandViolates(i))
    => refl_return[1] = None

\* a call refused for the zero exposure of band 3 alone
C6_Witness ==
  /\ refl_return = <<None>>
  /\ last_fullframe # None
  /\ ExposureZero(3) /\ ~DarkNoiseAbsent(3) /\ ~RadianceZero(3)
  /\ \A i \in Bands \ {3} : ~BandViolates(i)

\* ------------------------------------------------------------------------
\* SpecRaster: the reflectance refresh cycle and the raster store
\* (RasterCalculationTab with its CoreRasterCalculator)
\* ------------------------------------------------------------------------
OverlayName == <<"Overlay", 0>>

\* f"Raster {self.raster_counter}"
RasterName(n) == <<"Raster", n>>

\* dict[key] = value
Put(dict, key, value) ==
  [k \in DOMAIN dict \cup {key} |-> IF k = key THEN value ELSE dict[k]]

\* the raster side of the tab, as the helpers below pass it along
RasterState ==
  [rasters |-> calculated_rasters, exprs |-> raster_expressions,
   list |-> ras_calc_list, displayed |-> current_displayed_raster, evals |-> {}]

\* CoreRasterCalculator.get_raster
get_raster(rasters, name) ==
  IF name \in DOMAIN rasters THEN rasters[name] ELSE None

\* on_raster_selection_changed: display the raster of the current text
on_raster_selection_changed(rs) ==
  IF rs.list.current = <<>> THEN rs
  ELSE LET raster_data == get_raster(rs.rasters, rs.list.current)
       IN IF raster_data # None THEN [rs EXCEPT !.displayed = raster_data] ELSE rs

\* QComboBox.addItem / insertItem(0, ...): the first item becomes current, an
\* insertion before the current item moves its index; both emit
\* currentIndexChanged
ComboInsert(rs, name, front) ==
  LET items == IF front THEN <<name>> \o rs.list.items ELSE Append(rs.list.items, name)
      current == IF rs.list.items = <<>> THEN name ELSE rs.list.current
      rs1 == [rs EXCEPT !.list = [items |-> items, current |-> current]]
  IN IF rs.list.items = <<>> \/ front THEN on_raster_selection_changed(rs1) ELSE rs1

\* RasterCalculationTab.ensure_overlay_raster
ensure_overlay_raster(rs, tiles) ==
  IF tiles = None THEN rs
  ELSE IF OverlayName \in DOMAIN rs.rasters THEN rs
  ELSE LET result == evaluate_expression(overlay_expr, tiles)
           rs1 == [rs EXCEPT !.evals = @ \cup {overlay_expr}]
       IN IF result = None THEN rs1
          ELSE LET rs2 == [rs1 EXCEPT !.rasters = Put(@, OverlayName, result),
                                      !.exprs = Put(@, OverlayName, overlay_expr)]
               IN IF \E i \in 1..Len(rs2.list.items) : rs2.list.items[i] = OverlayName
                  THEN rs2
                  ELSE ComboInsert(rs2, OverlayName, TRUE)

\* the loop body of update_all_rasters for one name
\* update_all_rasters storing whatever evaluate_expression returned
ReevaluatedRaster_StoreNone(rs, name, tiles) ==
  IF name \notin DOMAIN rs.exprs \/ rs.exprs[name] = <<>> THEN rs.rasters[name]
  ELSE evaluate_expression(rs.exprs[name], tiles)

ReevaluatedRaster(rs, name, tiles) ==
  IF name \notin DOMAIN rs.exprs \/ rs.exprs[name] = <<>> THEN rs.rasters[name]
  ELSE LET result == evaluate_expression(rs.exprs[name], tiles)
       IN IF result # None THEN result ELSE rs.rasters[name]

\* update_all_rasters removing the array of a raster whose expression fails
update_all_rasters_DropFailed(rs, tiles) ==
  IF tiles = None THEN rs
  ELSE LET names == {n \in DOMAIN rs.rasters :
                       ReevaluatedRaster_StoreNone(rs, n, tiles) # None}
       IN on_raster_selection_changed(
            [rs EXCEPT !.rasters = [n \in names |-> ReevaluatedRaster(rs, n, tiles)]])

\* RasterCalculationTab.update_all_rasters
update_all_rasters(rs, tiles) ==
  IF tiles = None THEN rs
  ELSE LET names == DOMAIN rs.rasters
           rs1 == [rs EXCEPT
                     !.rasters = [n \in names |-> ReevaluatedRaster(rs, n, tiles)],
                     !.evals = @ \cup {rs.exprs[n] : n \in {m \in names \cap DOMAIN rs.exprs :
                                                            rs.exprs[m] # <<>>}}]
       IN on_raster_selection_changed(rs1)

\* what a consumer took from the slot
Read(consumer, array) == [consumer |-> consumer, array |-> array]

\* the frame the refresh cycle uses
FrameToUse ==
  IF alignment_enabled /\ last_aligned_frame # None
  THEN last_aligned_frame ELSE last_fullframe

SetRasterState(rs) ==
  /\ calculated_rasters' = rs.rasters
  /\ raster_expressions' = rs.exprs
  /\ ras_calc_list' = rs.list
  /\ current_displayed_raster' = rs.displayed
  /\ unvalidated_evals' = unvalidated_evals \cup (rs.evals \ validated)

\* RasterCalculationTab.update_reflectance_display (update_timer, every 500 ms)
update_reflectance_display ==
  /\ IF last_fullframe = None
     THEN /\ reflectance_calculated' = FALSE
          /\ UNCHANGED <<warning_invalid_params_shown, warnings, last_read,
                         current_reflectance_tiles, calculated_rasters,
                         raster_expressions, ras_calc_list,
                         current_displayed_raster, unvalidated_evals>>
     ELSE LET out == calculate_reflectance(Deref(heap, FrameToUse), bg_tiles,
                                           expo_sliders, ref_cam_entries, EXPO_MS,
                                           warning_invalid_params_shown)
          IN /\ warning_invalid_params_shown' = out.shown
             /\ warnings' = Warned(warnings, out.warning)
             /\ last_read' = Read("update_reflectance_display",
                                  Deref(heap, FrameToUse))
             /\ IF out.raised \/ out.result = None
                THEN /\ reflectance_calculated' = FALSE
                     /\ UNCHANGED <<current_reflectance_tiles, calculated_rasters,
                                    raster_expressions, ras_calc_list,
                                    current_displayed_raster, unvalidated_evals>>
                ELSE /\ current_reflectance_tiles' = out.result
                     /\ SetRasterState(update_all_rasters(
                            ensure_overlay_raster(RasterState, out.result), out.result))
                     /\ reflectance_calculated' = TRUE
  /\ UNCHANGED <<validateVars, modelVars, refVars, ctlVars, geoVars, slotVars, alignVars, ingestVars, saveVars,
                 calibVars, refl_return, raster_counter, ras_func_txt, validated,
                 last_apply>>

\* the operator types a text into ras_func_txt
EditExpression(text) ==
  /\ ras_func_txt' = text
  /\ last_apply' = NotCalled
  /\ UNCHANGED <<validateVars, modelVars, refVars, ctlVars, geoVars, frameVars, calibVars, reflVars, calculated_rasters,
                 raster_expressions, raster_counter, ras_calc_list,
                 current_displayed_raster, validated, unvalidated_evals>>

Validated(text) ==
  IF validate_expression(text)[1] THEN validated \cup {text} ELSE validated

\* RasterCalculationTab.check_raster_expression
check_raster_expression ==
  /\ validated' = Validated(Strip(ras_func_txt))
  /\ last_apply' = NotCalled
  /\ UNCHANGED <<validateVars, modelVars, refVars, ctlVars, geoVars, frameVars, calibVars, reflVars, rasterVars,
                 unvalidated_evals>>

\* RasterCalculationTab.apply_raster_expression with
\* CoreRasterCalculator.add_calculated_raster
apply_raster_expression ==
  /\ raster_counter < MaxRasters
  /\ LET expr == Strip(ras_func_txt)
         is_valid == validate_expression(expr)[1]
         result == evaluate_expression(expr, current_reflectance_tiles)
     IN /\ validated' = Validated(expr)
        /\ last_apply' = <<[outcome |-> IF ~is_valid THEN "invalid"
                                        ELSE IF current_reflectance_tiles = None THEN "no_tiles"
                                        ELSE IF result = None THEN "eval_failed"
                                        ELSE "added"]>>
        /\ IF ~is_valid \/ current_reflectance_tiles = None
           THEN UNCHANGED <<calculated_rasters, raster_expressions, raster_counter,
                            ras_calc_list, current_displayed_raster, unvalidated_evals>>
           ELSE IF result = None
           THEN /\ unvalidated_evals' = unvalidated_evals \cup ({expr} \ validated')
                /\ UNCHANGED <<calculated_rasters, raster_expressions, raster_counter,
                               ras_calc_list, current_displayed_raster>>
           ELSE LET raster_name == RasterName(raster_counter + 1)
                    rs == ComboInsert(
                            [RasterState EXCEPT
                               !.rasters = Put(@, raster_name, result),
                               !.exprs = Put(@, raster_name, expr)],
                            raster_name, FALSE)
                IN /\ raster_counter' = raster_counter + 1
                   /\ calculated_rasters' = rs.rasters
                   /\ raster_expressions' = rs.exprs
                   /\ ras_calc_list' = rs.list
                   /\ current_displayed_raster' = result
                   /\ unvalidated_evals' = unvalidated_evals \cup ({expr} \ validated')
  /\ UNCHANGED <<validateVars, modelVars, refVars, ctlVars, geoVars, frameVars, calibVars, reflVars, ras_func_txt>>

\* RasterCalculationTab.reset_raster_expression, answered Yes, with
\* CoreRasterCalculator.clear_all_rasters
reset_raster_expression ==
  /\ ras_func_txt' = <<>>
  /\ calculated_rasters' = NoRasters
  /\ raster_expressions' = NoRasters
  /\ raster_counter' = 0
  /\ ras_calc_list' = [items |-> <<>>, current |-> <<>>]
  /\ current_displayed_raster' = None
  /\ last_apply' = NotCalled
  /\ UNCHANGED <<validateVars, modelVars, refVars, ctlVars, geoVars, frameVars, calibVars, reflVars, validated,
                 unvalidated_evals>>

\* the operator picks an item of the dropdown
SelectRaster(i) ==
  /\ i \in 1..Len(ras_calc_list.items)
  /\ ras_calc_list.items[i] # ras_calc_list.current
  /\ LET rs == on_raster_selection_changed(
                 [RasterState EXCEPT !.list.current = ras_calc_list.items[i]])
     IN /\ ras_calc_list' = rs.list
        /\ current_displayed_raster' = rs.displayed
  /\ last_apply' = NotCalled
  /\ UNCHANGED <<validateVars, modelVars, refVars, ctlVars, geoVars, frameVars, calibVars, reflVars, calculated_rasters,
                 raster_expressions, raster_counter, ras_func_txt, validated,
                 unvalidated_evals>>

\* CalibrationTab.load_bg_image with load_reference_image: all 4 tiles are
\* stored when the file decodes to 480 x 2560, none otherwise
load_bg_image(readable) ==
  /\ bg_tiles' = IF readable THEN [i \in Bands |-> BgTile(i)] ELSE bg_tiles
  /\ bg_tiles' # bg_tiles
  /\ UNCHANGED <<validateVars, modelVars, refVars, ctlVars, geoVars, frameVars, expo_sliders, ref_cam_entries, EXPO_MS_arg,
                 reflVars, rasterVars, histVars>>

\* the text of one reference radiance entry changes (typed, or written by
\* estimate_reference_radiance)
SetRefEntry(i, text) ==
  /\ ref_cam_entries[i] # text
  /\ ref_cam_entries' = [ref_cam_entries EXCEPT ![i] = text]
  /\ UNCHANGED <<validateVars, modelVars, refVars, ctlVars, geoVars, frameVars, bg_tiles, expo_sliders, EXPO_MS_arg,
                 reflVars, rasterVars, histVars>>

\* a hand-over that copies the new frame into the array the slot holds
on_frame_received_InPlace ==
  /\ eventQueue # <<>>
  /\ IF last_fullframe = None
     THEN /\ last_fullframe' = Head(eventQueue)
          /\ heap' = heap
     ELSE /\ last_fullframe' = last_fullframe
          /\ heap' = [heap EXCEPT ![last_fullframe.addr] = heap[Head(eventQueue).addr]]
  /\ eventQueue' = Tail(eventQueue)
  /\ UNCHANGED <<validateVars, modelVars, refVars, ctlVars, geoVars, alignVars, ingestVars, saveVars, last_read,
                 calibVars, reflVars, rasterVars, histVars>>

\* CameraViewerTab.on_frame_received, run by the main thread for the oldest
\* queued frame_received signal
on_frame_received ==
  /\ eventQueue # <<>>
  /\ last_fullframe' = Head(eventQueue)
  /\ eventQueue' = Tail(eventQueue)
  /\ UNCHANGED <<validateVars, modelVars, refVars, ctlVars, geoVars, heap, alignVars, ingestVars, saveVars, last_read,
                 calibVars, reflVars, rasterVars, histVars>>

\* texts typed in the raster runs: accepted and evaluable, accepted but
\* failing in eval, rejected
RasterTexts == {ExprR1PlusR2, ExprAttribute, ExprImportOs}

\* the entries edited in the raster runs: the first band and a later one
RasterEntryBands == {1, 3}

\* entry texts of the raster runs, which start with 4 valid radiances typed
RasterEntryTexts == {EntryZero, EntryValid}

InitRaster ==
  /\ IdleValidate
  /\ last_fullframe = None
  /\ heap = [k \in 1..MaxFrames |-> CameraFrame(k)]
  /\ eventQueue = [k \in 1..MaxFrames |-> Ref(k)]
  /\ IdleAlignment
  /\ IdleIngest
  /\ IdleSave
  /\ bg_tiles = [i \in Bands |-> None]
  /\ expo_sliders = [i \in Bands |-> 1]
  /\ ref_cam_entries = [i \in Bands |-> EntryValid]
  /\ EXPO_MS_arg = EXPO_MS
  /\ IdleRefl
  /\ IdleRaster
  /\ IdleModel
  /\ IdleGeo
  /\ IdleRef
  /\ IdleControl

NextRaster ==
  \/ on_frame_received
  \/ \E readable \in BOOLEAN : load_bg_image(readable)
  \/ \E i \in RasterEntryBands, text \in RasterEntryTexts : SetRefEntry(i, text)
  \/ update_reflectance_display
  \/ \E text \in RasterTexts : EditExpression(text)
  \/ check_raster_expression
  \/ apply_raster_expression
  \/ reset_raster_expression
  \/ \E i \in 1..(MaxRasters + 1) : SelectRaster(i)

SpecRaster == InitRaster /\ [][NextRaster]_vars

\* C1: every evaluate_expression call (apply_raster_expression,
\* update_all_rasters, ensure_overlay_raster) is preceded by a successful
\* validate_expression of the same text.
C1_EvaluatedOnlyAfterValidation == unvalidated_evals = {}

\* C7: reflectance is all-or-nothing across bands: the stored tiles are no
\* result or exactly 4 tiles, and a refresh cycle in which any band violates a
\* precondition leaves the stored tiles and all stored rasters unchanged and
\* emits no reflectance_calculated.
C7_AllOrNothing ==
  [][update_reflectance_display =>
       /\ current_reflectance_tiles' # None
            => Len(current_reflectance_tiles'.items) = 4
       /\ (last_fullframe # None /\ \E i \in Bands : BandViolates(i))
            => /\ UNCHANGED <<current_reflectance_tiles, calculated_rasters,
                              raster_expressions, raster_counter>>
               /\ reflectance_calculated' = FALSE]_vars

\* a refused cycle (band 3 alone has a zero radiance) after a cycle that stored
\* tiles and rasters
C7_Witness ==
  /\ last_fullframe # None
  /\ current_reflectance_tiles # None
  /\ RasterName(1) \in DOMAIN calculated_rasters
  /\ ~reflectance_calculated
  /\ RadianceZero(3)
  /\ \A i \in Bands \ {3} : ~BandViolates(i)

\* the warning category a refresh cycle refuses with in the current state
RefusalCategory ==
  IF last_fullframe = None THEN NoWarning
  ELSE calculate_reflectance(Deref(heap, FrameToUse), bg_tiles, expo_sliders,
                             ref_cam_entries, EXPO_MS, FALSE).warning

\* C8: warnings are deduplicated per precondition: a refused cycle leaves its
\* category shown at least once (so a shown "missing background" does not
\* suppress the first "zero exposure or reference radiance" and vice versa),
\* and no category is shown twice.
C8_DedupPerPrecondition ==
  [][/\ \A c \in WarningCategories : warnings'[c] <= 1
     /\ update_reflectance_display
          => (RefusalCategory # NoWarning => warnings'[RefusalCategory] >= 1)]_vars

\* ------------------------------------------------------------------------
\* SpecIngest: the live channel, the receiver thread and the hand-over of
\* its frames to the slot; SpecFrame: the slot and its consumers in the main
\* thread, with frames received and waiting in the event queue, the
\* background loaded, the radiances typed, the save folders chosen and the
\* three save boxes ticked. In these runs the alignment dialog is only ever
\* cancelled, so geo_transform stays None and update_frames never reaches
\* apply_alignment.
\* ------------------------------------------------------------------------
PayloadKinds == {"frame", "wrong_shape", "undecodable"}

\* a message of zero bytes, which cv2.imdecode refuses with cv2.error
EmptyPayload == "empty"

\* cv2.imdecode(np.frombuffer(data, np.uint8), cv2.IMREAD_GRAYSCALE)
imdecode(data) ==
  CASE data.kind = "frame" -> CameraFrame(data.seq)
    [] data.kind = "wrong_shape" -> Array(<<"camera">>, <<FRAME_H, FRAME_W>>, data.seq)
    [] OTHER -> None

\* the address of a newly allocated array
NewAddr(hp) ==
  CHOOSE a \in 1..(Cardinality(DOMAIN hp) + 1) :
    a \notin DOMAIN hp /\ \A b \in 1..(a - 1) : b \in DOMAIN hp

\* the array at addr is no longer referenced
Free(hp, addr) == [a \in DOMAIN hp \ {addr} |-> hp[a]]

\* the camera publishes its next frame, or something that is no frame;
\* zmq.CONFLATE keeps the latest message only
Publish(kind) ==
  /\ kind = "frame" => published < MaxFrames
  /\ published' = IF kind = "frame" THEN published + 1 ELSE published
  /\ sock' = <<[kind |-> kind, seq |-> IF kind = "frame" THEN published + 1 ELSE 0]>>
  /\ UNCHANGED <<validateVars, modelVars, refVars, ctlVars, geoVars, slotVars, alignVars, zmq_thread, saveVars,
                 last_read, calibVars, reflVars, rasterVars, histVars>>

\* ZMQReceiverThread.run: the loop test, then data =
\* sock.recv(flags=zmq.NOBLOCK), which raises zmq.Again when no message waits
ZMQReceiverThread_recv ==
  /\ zmq_thread.pc = "recv"
  /\ IF zmq_thread.interruption
     THEN /\ zmq_thread' = [zmq_thread EXCEPT !.pc = "close"]
          /\ UNCHANGED sock
     ELSE IF sock # NoPayload
     THEN /\ zmq_thread' = [zmq_thread EXCEPT !.pc = "imdecode", !.data = sock]
          /\ sock' = NoPayload
     ELSE /\ zmq_thread' = [zmq_thread EXCEPT !.pc = "msleep", !.data = NoPayload]
          /\ UNCHANGED sock
  /\ UNCHANGED <<validateVars, modelVars, refVars, ctlVars, geoVars, slotVars, published, alignVars, saveVars,
                 last_read, calibVars, reflVars, rasterVars, histVars>>

\* ZMQReceiverThread.run: decode the message, check the shape, emit
\* frame_received with a copy
ZMQReceiverThread_emit ==
  /\ zmq_thread.pc = "imdecode"
  /\ IF zmq_thread.data[1].kind = EmptyPayload
     THEN \* cv2.error is no zmq.Again: it leaves the loop and run()
          /\ zmq_thread' = [zmq_thread EXCEPT !.pc = "raised", !.data = NoPayload]
          /\ UNCHANGED <<heap, eventQueue>>
     ELSE /\ zmq_thread' = [zmq_thread EXCEPT !.pc = "recv", !.data = NoPayload]
          /\ LET img == imdecode(zmq_thread.data[1])
             IN IF img # None /\ img.shape = <<FRAME_H, FULL_W>>
                THEN LET a == NewAddr(heap)
                     IN /\ heap' = Put(heap, a, img)
                        /\ eventQueue' = Append(eventQueue, Ref(a))
                ELSE UNCHANGED <<heap, eventQueue>>
  /\ UNCHANGED <<validateVars, modelVars, refVars, ctlVars, geoVars, last_fullframe, sock, published, alignVars,
                 saveVars, last_read, calibVars, reflVars, rasterVars, histVars>>

\* ZMQReceiverThread.run: except zmq.Again: self.msleep(10)
ZMQReceiverThread_msleep ==
  /\ zmq_thread.pc = "msleep"
  /\ zmq_thread' = [zmq_thread EXCEPT !.pc = "recv"]
  /\ UNCHANGED <<validateVars, modelVars, refVars, ctlVars, geoVars, slotVars, sock, published, alignVars,
                 saveVars, last_read, calibVars, reflVars, rasterVars, histVars>>

\* ZMQReceiverThread.run after its loop: sock.close(), context.term(), return
ZMQReceiverThread_close ==
  /\ zmq_thread.pc = "close"
  /\ zmq_thread' = [zmq_thread EXCEPT !.pc = "finished", !.closed = TRUE]
  /\ UNCHANGED <<validateVars, modelVars, refVars, ctlVars, geoVars, slotVars, sock, published, alignVars,
                 saveVars, last_read, calibVars, reflVars, rasterVars, histVars>>

\* QThread.isRunning()
isRunning(thread) == thread.pc \notin {"finished", "raised"}

\* start_zmq_streaming going on without waiting for the thread
wait_returns_AtOnce(thread) == TRUE

\* self.zmq_thread.wait() of start_zmq_streaming, skipped when the thread does
\* not run: control passes it once the thread has left run()
wait_returns(thread) == ~isRunning(thread)

\* CameraViewerTab.start_zmq_streaming with a thread running:
\* requestInterruption(), and wait() then blocks the main thread
start_zmq_streaming_stop ==
  /\ isRunning(zmq_thread)
  /\ ~zmq_thread.interruption
  /\ zmq_thread' = [zmq_thread EXCEPT !.interruption = TRUE]
  /\ UNCHANGED <<validateVars, modelVars, refVars, ctlVars, geoVars, slotVars, sock, published, alignVars,
                 saveVars, last_read, calibVars, reflVars, rasterVars, histVars>>

\* CameraViewerTab.start_zmq_streaming once no thread runs (wait() returned,
\* or the thread had ended by itself): a new thread is started
start_zmq_streaming_start ==
  /\ wait_returns(zmq_thread)
  /\ zmq_thread' = [NewThread EXCEPT
                      !.others = zmq_thread.others + (IF isRunning(zmq_thread) THEN 1 ELSE 0),
                      !.restarted = zmq_thread.interruption]
  /\ UNCHANGED <<validateVars, modelVars, refVars, ctlVars, geoVars, slotVars, sock, published, alignVars,
                 saveVars, last_read, calibVars, reflVars, rasterVars, histVars>>

\* the main thread is inside zmq_thread.wait()
WaitsForThread == zmq_thread.interruption /\ isRunning(zmq_thread)

\* the keys of CoreGeoTransform.homography_matrices, by band
HKeys == <<"H_11", "H_21", "H_31", "H_41">>

\* cv2.warpPerspective(band, H, (640, 480), ...)
warpPerspective(band, H) ==
  Array(<<"warpPerspective", band, H>>, <<FRAME_H, FRAME_W>>, band.id)

\* np.hstack of 4 arrays of one height: the widths add up
hstack(arrays, id) ==
  Array(<<"hstack", arrays>>,
        <<arrays[1].shape[1],
          arrays[1].shape[2] + arrays[2].shape[2] + arrays[3].shape[2] + arrays[4].shape[2]>>,
        id)

\* apply_alignment with bands that start one column late
apply_alignment_Shifted(full_frame, homography_matrices) ==
  LET bands == [i \in Bands |-> Columns(full_frame, (i - 1) * FRAME_W + 1, i * FRAME_W + 1)]
  IN hstack(bands, full_frame.id)

\* CameraViewerTab.apply_alignment: np.hstack of band 1 as it is and, for
\* each target band, the warped band or, without a homography, the band
apply_alignment(full_frame, homography_matrices) ==
  LET bands == [i \in Bands |-> Columns(full_frame, (i - 1) * FRAME_W, i * FRAME_W)]
      H(i) == IF HKeys[i] \in DOMAIN homography_matrices
              THEN homography_matrices[HKeys[i]] ELSE None
      aligned_bands == [i \in Bands |->
                          IF i = 1 \/ H(i) = None THEN bands[i]
                          ELSE warpPerspective(bands[i], H(i))]
  IN hstack(aligned_bands, full_frame.id)

\* the keys apply_alignment finds no homography for
MissingKeys(homography_matrices) ==
  {HKeys[i] : i \in {k \in 2..4 :
     HKeys[k] \notin DOMAIN homography_matrices
       \/ homography_matrices[HKeys[k]] = None}}

\* the heap without the array apply_alignment made for the previous frame
WithoutAligned(hp) ==
  IF last_aligned_frame # None /\ hp[last_aligned_frame.addr].src[1] = "hstack"
  THEN Free(hp, last_aligned_frame.addr) ELSE hp

\* CameraViewerTab.update_frames (update_timer, every 33 ms) with
\* update_expo_for_save and apply_alignment; "Missing Transformation" is
\* shown once per key (_warned_<key>)
update_frames ==
  /\ IF last_fullframe = None
     THEN UNCHANGED <<savers, last_aligned_frame, last_read, heap, warned, signalled>>
     ELSE /\ savers' = [savers EXCEPT !["raw_save"].exp_ms100 =
                          [i \in Bands |-> ExposureMs(expo_sliders[i], EXPO_MS)]]
          /\ last_read' = Read("update_frames", Deref(heap, last_fullframe))
          /\ IF alignment_enabled /\ geo_transform # None
             THEN LET hp == WithoutAligned(heap)
                      a == NewAddr(hp)
                  IN /\ heap' = Put(hp, a, apply_alignment(Deref(heap, last_fullframe),
                                                           geo_transform))
                     /\ last_aligned_frame' = Ref(a)
                     /\ warned' = warned \cup MissingKeys(geo_transform)
                     /\ signalled' = signalled \cup (MissingKeys(geo_transform) \ warned)
             ELSE /\ heap' = WithoutAligned(heap)
                  /\ last_aligned_frame' = IF alignment_enabled THEN last_fullframe
                                           ELSE None
                  /\ UNCHANGED <<warned, signalled>>
  /\ UNCHANGED <<validateVars, modelVars, refVars, ctlVars, last_fullframe, eventQueue, alignment_enabled,
                 ingestVars, modal, imwrite, calibVars, reflVars, rasterVars, histVars,
                 geo_transform, dlg, config_file, saved_matrices, load_results,
                 estimation, failed_keys>>

ImwriteResults == {"written", "failed", "raised"}

DialogTitles == {"Write Failed", "Save Error"}

\* CoreRawImageSave.save_frame_if_active on the frame the slot holds: what it
\* does, a dialog title when it opens a QMessageBox.critical
save_frame_if_active(saver, frame, success) ==
  IF ~saver.save_active THEN "return"
  ELSE IF frame = None THEN "return"
  ELSE IF frame.shape[1] * frame.shape[2] = 0 THEN "return"
  ELSE IF ~saver.save_dir THEN "return"
  ELSE IF success = "written" THEN "saved"
  ELSE IF success = "failed"
       THEN IF saver.write_error_shown THEN "return" ELSE "Write Failed"
  ELSE "Save Error"

\* a call of the main thread suspended in the exec() of a modal dialog:
\* frame is the reference it holds, swapped the address it put in the slot
Suspended(handler, saver, title, frame, swapped) ==
  [handler |-> handler, saver |-> saver, title |-> title, frame |-> frame,
   swapped |-> swapped]

\* CameraViewerTab.save_if_active (save_timer, every 1000 ms)
save_if_active ==
  /\ LET frame == Deref(heap, last_fullframe)
         outcome == save_frame_if_active(savers["raw_save"], frame, imwrite)
     IN /\ last_read' = IF savers["raw_save"].save_active /\ frame # None
                        THEN Read("save_if_active", frame) ELSE last_read
        /\ IF outcome \in DialogTitles
           THEN /\ Len(modal) < MaxDepth
                /\ modal' = Append(modal, Suspended("save_if_active", "raw_save",
                                                    outcome, None, 0))
           ELSE UNCHANGED modal
  /\ UNCHANGED <<validateVars, modelVars, refVars, ctlVars, geoVars, slotVars, alignVars, ingestVars, savers,
                 imwrite, calibVars, reflVars, rasterVars, histVars>>

\* original = ccv.last_fullframe; try: ccv.last_fullframe = image;
\* saver.save_frame_if_active() finally: ccv.last_fullframe = original
\* (the finally clause runs in CloseDialog when the saver opens a dialog)
SwapAndSave(handler, name, image) ==
  LET outcome == save_frame_if_active(savers[name], image, imwrite)
  IN IF outcome \in DialogTitles
     THEN /\ Len(modal) < MaxDepth
          /\ LET a == NewAddr(heap)
             IN /\ heap' = Put(heap, a, image)
                /\ last_fullframe' = Ref(a)
                /\ modal' = Append(modal, Suspended(handler, name, outcome,
                                                    last_fullframe, a))
     ELSE UNCHANGED <<heap, last_fullframe, modal>>

\* RasterCalculationTab.combine_tiles_to_image
combine_tiles_to_image(tiles) ==
  IF tiles = None THEN None
  ELSE IF Len(tiles.items) # 4 THEN None
  ELSE Array(<<"combined">>,
             <<tiles.items[1].shape[1],
               tiles.items[1].shape[2] + tiles.items[2].shape[2]
                 + tiles.items[3].shape[2] + tiles.items[4].shape[2]>>,
             tiles.items[1].id)

\* RasterCalculationTab.convert_raster_to_image
convert_raster_to_image(raster) ==
  IF raster = None THEN None
  ELSE Array(<<"raster_image">>, raster.shape, raster.id)

\* RasterCalculationTab.save_reflectance_if_active (refl_save_timer, 1000 ms)
save_reflectance_if_active ==
  /\ LET combined == combine_tiles_to_image(current_reflectance_tiles)
     IN IF current_reflectance_tiles = None \/ combined = None
        THEN UNCHANGED <<heap, last_fullframe, modal>>
        ELSE SwapAndSave("save_reflectance_if_active", "reflectance_saver",
                         combined)
  /\ UNCHANGED <<validateVars, modelVars, refVars, ctlVars, geoVars, eventQueue, alignVars, ingestVars, savers,
                 imwrite, last_read, calibVars, reflVars, rasterVars, histVars>>

\* RasterCalculationTab.save_raster_if_active (raster_save_timer, 1000 ms)
save_raster_if_active ==
  /\ LET raster_image == convert_raster_to_image(current_displayed_raster)
     IN IF current_displayed_raster = None \/ raster_image = None
        THEN UNCHANGED <<heap, last_fullframe, modal>>
        ELSE SwapAndSave("save_raster_if_active", "raster_saver",
                         raster_image)
  /\ UNCHANGED <<validateVars, modelVars, refVars, ctlVars, geoVars, eventQueue, alignVars, ingestVars, savers,
                 imwrite, last_read, calibVars, reflVars, rasterVars, histVars>>

\* CameraViewerTab.open_image_alignment up to dlg.exec(): the dialog keeps
\* views of the frame the slot holds
open_image_alignment ==
  /\ modal = <<>>
  /\ IF last_fullframe = None
     THEN UNCHANGED <<modal, last_read, dlg, load_results, estimation, failed_keys>>
     ELSE /\ modal' = Append(modal, Suspended("open_image_alignment", "",
                                              "Image Alignment", last_fullframe, 0))
          /\ last_read' = Read("open_image_alignment", Deref(heap, last_fullframe))
          /\ dlg' = [key \in {"H_21", "H_31", "H_41"} |-> None]
          /\ load_results' = NotCalled
          /\ estimation' = NotCalled
          /\ failed_keys' = {}
  /\ UNCHANGED <<validateVars, modelVars, refVars, ctlVars, geo_transform, config_file, saved_matrices,
                 warned, signalled, slotVars, alignVars, ingestVars, savers,
                 imwrite, calibVars, reflVars, rasterVars, histVars>>

\* the innermost modal dialog closes and the call it suspended runs to its
\* end: _write_error_shown = True after "Write Failed", the finally clause
\* of the swap; the alignment dialog is left with Cancel, and its
\* geo_transform goes with it
CloseDialog ==
  /\ modal # <<>>
  /\ LET top == modal[Len(modal)]
     IN /\ modal' = SubSeq(modal, 1, Len(modal) - 1)
        /\ savers' = IF top.title = "Write Failed"
                     THEN [savers EXCEPT ![top.saver].write_error_shown = TRUE]
                     ELSE savers
        /\ IF top.swapped # 0
           THEN /\ last_fullframe' = top.frame
                /\ heap' = Free(heap, top.swapped)
           ELSE UNCHANGED <<last_fullframe, heap>>
        /\ IF top.handler = "open_image_alignment"
           THEN /\ dlg' = None
                /\ load_results' = NotCalled
                /\ estimation' = NotCalled
                /\ failed_keys' = {}
           ELSE UNCHANGED <<dlg, load_results, estimation, failed_keys>>
  /\ UNCHANGED <<validateVars, modelVars, refVars, ctlVars, geo_transform, config_file, saved_matrices,
                 warned, signalled, eventQueue, alignVars, ingestVars, imwrite,
                 last_read, calibVars, reflVars, rasterVars, histVars>>

InitFrame ==
  /\ IdleValidate
  /\ last_fullframe = None
  /\ heap = [k \in 1..MaxFrames |-> CameraFrame(k)]
  /\ eventQueue = [k \in 1..MaxFrames |-> Ref(k)]
  /\ IdleAlignment
  /\ IdleIngest
  /\ modal = <<>>
  /\ savers = [n \in SaverNames |->
                 [NewSaver EXCEPT !.save_dir = TRUE, !.save_active = TRUE]]
  /\ imwrite \in ImwriteResults
  /\ bg_tiles = [i \in Bands |-> BgTile(i)]
  /\ expo_sliders = [i \in Bands |-> 1]
  /\ ref_cam_entries = [i \in Bands |-> EntryValid]
  /\ EXPO_MS_arg = EXPO_MS
  /\ IdleRefl
  /\ IdleRaster
  /\ IdleModel
  /\ IdleGeo
  /\ IdleRef
  /\ IdleControl

NextFrame ==
  \/ on_frame_received
  \/ update_frames
  \/ update_reflectance_display
  \/ save_if_active
  \/ save_reflectance_if_active
  \/ save_raster_if_active
  \/ open_image_alignment
  \/ CloseDialog

SpecFrame == InitFrame /\ [][NextFrame]_vars

InitIngest ==
  /\ IdleValidate
  /\ IdleFrame
  /\ IdleCalib
  /\ IdleRefl
  /\ IdleRaster
  /\ IdleModel
  /\ IdleGeo
  /\ IdleRef
  /\ IdleControl

NextIngest ==
  \/ \E kind \in PayloadKinds : Publish(kind)
  \/ ZMQReceiverThread_recv
  \/ ZMQReceiverThread_emit
  \/ ZMQReceiverThread_msleep
  \/ on_frame_received
  \/ update_frames

SpecIngest == InitIngest /\ [][NextIngest]_vars

IsCameraFrame(array) ==
  array.src = <<"camera">> /\ array.shape = <<FRAME_H, FULL_W>>

\* C3: every value a consumer (live display, refresh cycle, raw-frame save,
\* alignment dialog) reads from the shared slot is a 480 x 2560 camera frame
\* (consumers that find None read nothing); no temporary swap of another
\* array into the slot is visible to them.
C3_ConsumersSeeCameraFrames ==
  last_read # None => IsCameraFrame(last_read.array)

\* C4: frame delivery is latest-value-wins end to end: neither the socket nor
\* the hand-off from the receiver thread to the main loop ever holds more
\* than one unconsumed frame.
C4_AtMostOnePending == Len(sock) <= 1 /\ Len(eventQueue) <= 1

\* C5: the slot changes by reference replacement only: no step changes an
\* array that exists before and after it, and the frame a suspended reader
\* holds stays in place, a whole camera frame or the array swapped over it.
C5_WholeReferenceReplacement ==
  [][/\ \A a \in DOMAIN heap \cap DOMAIN heap' : heap'[a] = heap[a]
     /\ \A k \in 1..Len(modal) :
          (k <= Len(modal') /\ modal[k].frame # None)
            => /\ modal'[k].frame = modal[k].frame
               /\ modal[k].frame.addr \in DOMAIN heap']_vars

\* the alignment dialog holds frame 1 while the slot has moved on to frame 2
C5_Witness ==
  /\ modal # <<>>
  /\ modal[1].handler = "open_image_alignment"
  /\ last_fullframe # None
  /\ last_fullframe # modal[1].frame
  /\ Deref(heap, modal[1].frame) = CameraFrame(1)
  /\ Deref(heap, last_fullframe) = CameraFrame(2)

\* ------------------------------------------------------------------------
\* SpecModel: CoreClassifier, load_model and predict_classification
\* ------------------------------------------------------------------------
\* what joblib.load finds in a file: a dict, a classifier fitted on n features
DictObject ==
  [kind |-> "object", type |-> "dict", has_predict |-> FALSE, n_features_in_ |-> 0]

Classifier(n) ==
  [kind |-> "object", type |-> "classifier", has_predict |-> TRUE, n_features_in_ |-> n]

ModelFiles ==
  {"missing.joblib", "small.joblib", "truncated.joblib", "dict.joblib",
   "rf1.joblib", "rf2.joblib"}

\* os.path.exists, os.path.getsize and the outcome of joblib.load
File(filepath) ==
  CASE filepath = "missing.joblib" ->
         [exists |-> FALSE, size |-> 0, raises |-> "", object |-> None]
    [] filepath = "small.joblib" ->
         [exists |-> TRUE, size |-> 64, raises |-> "", object |-> DictObject]
    [] filepath = "truncated.joblib" ->
         [exists |-> TRUE, size |-> 2048, raises |-> "EOFError", object |-> None]
    [] filepath = "dict.joblib" ->
         [exists |-> TRUE, size |-> 2048, raises |-> "", object |-> DictObject]
    [] filepath = "rf1.joblib" ->
         [exists |-> TRUE, size |-> 2048, raises |-> "", object |-> Classifier(1)]
    [] filepath = "rf2.joblib" ->
         [exists |-> TRUE, size |-> 2048, raises |-> "", object |-> Classifier(2)]

Loaded(ret, m, path) == [ret |-> ret, model |-> m, model_path |-> path]

\* self.model = joblib.load(filepath), then the hasattr(self.model, 'predict')
\* check, then self.model_path = filepath
LoadedObject(object, m, path, filepath) ==
  IF ~object.has_predict THEN Loaded(FALSE, object, path)
  ELSE Loaded(TRUE, object, filepath)

\* CoreClassifier.load_model
load_model(filepath) ==
  /\ LET file == File(filepath)
         out == IF ~file.exists THEN Loaded(FALSE, model, model_path)
                ELSE IF file.size < 100 THEN Loaded(FALSE, model, model_path)
                ELSE IF file.raises # "" THEN Loaded(FALSE, model, model_path)
                ELSE LoadedObject(file.object, model, model_path, filepath)
     IN /\ load_return' = <<out.ret>>
        /\ model' = out.model
        /\ model_path' = out.model_path
  /\ UNCHANGED <<validateVars, refVars, ctlVars, frameVars, calibVars, reflVars, rasterVars, histVars,
                 geoVars, feature_stack, model_input, label_map>>

\* values of a feature layer
NonFinite == {"nan", "inf"}

np_isfinite(v) == v \notin NonFinite

\* the pixels of the stacks: every feature 0.5, every feature 1.5, the first
\* feature NaN and the others 1.5, every feature inf
PixelPatterns == {"lo", "hi", "nan_first", "inf_all"}

PatternValue(pattern, f) ==
  CASE pattern = "lo" -> "0.5"
    [] pattern = "hi" -> "1.5"
    [] pattern = "nan_first" -> IF f = 1 THEN "nan" ELSE "1.5"
    [] pattern = "inf_all" -> "inf"

\* height and width of the layers
StackShape == <<2, 2>>

\* np.stack(feature_arrays, axis=0) of n layers
Stack(n, pattern) ==
  [kind |-> "ndarray", shape |-> <<n>> \o StackShape,
   data |-> [f \in 1..n |-> [h \in 1..StackShape[1] |-> [w \in 1..StackShape[2] |->
               PatternValue(pattern[h][w], f)]]]]

FeatureStacks ==
  {Stack(n, pattern) : n \in 1..MaxFeatures,
                       pattern \in [1..StackShape[1] ->
                                      [1..StackShape[2] -> PixelPatterns]]}

\* X = feature_stack.reshape(num_features, -1).T: row k is pixel k in
\* row-major order
Reshaped(stack) ==
  LET W == stack.shape[3]
  IN [k \in 1..(stack.shape[2] * W) |->
        [f \in 1..stack.shape[1] |->
           stack.data[f][((k - 1) \div W) + 1][((k - 1) % W) + 1]]]

\* a mask that keeps a pixel when any of its features is finite
valid_mask_Any(X) ==
  [k \in DOMAIN X |-> \E f \in DOMAIN X[k] : np_isfinite(X[k][f])]

\* valid_mask = np.all(np.isfinite(X), axis=1)
valid_mask(X) ==
  [k \in DOMAIN X |-> \A f \in DOMAIN X[k] : np_isfinite(X[k][f])]

\* how many of the first k rows the mask keeps
Rank(mask, k) == Cardinality({j \in 1..k : mask[j]})

\* X[valid_mask]
Masked(X, mask) ==
  [j \in 1..Rank(mask, Len(X)) |->
     X[CHOOSE k \in DOMAIN X : mask[k] /\ Rank(mask, k) = j]]

\* the label a classifier gives one row
Label(row) == IF row[Len(row)] = "1.5" THEN "1" ELSE "0"

\* self.model.predict(rows): raises when the object has no predict and when
\* the rows do not have the number of features the classifier was fitted on
Predicts(m, num_features) == m.has_predict /\ m.n_features_in_ = num_features

Predicted(result, input) == [result |-> result, model_input |-> input]

\* CoreClassifier.predict_classification
predict_classification_result(m, stack) ==
  IF m = None THEN Predicted(None, NotCalled)
  ELSE IF stack = None THEN Predicted(None, NotCalled)
  ELSE IF stack.shape[1] * stack.shape[2] * stack.shape[3] = 0
  THEN Predicted(None, NotCalled)
  ELSE
    LET num_features == stack.shape[1]
        H == stack.shape[2]
        W == stack.shape[3]
        X == Reshaped(stack)
        mask == valid_mask(X)
        num_valid == Rank(mask, Len(X))
        rows == Masked(X, mask)
    IN IF num_valid = 0 THEN Predicted(None, NotCalled)
       ELSE IF ~m.has_predict THEN Predicted(None, NotCalled)
       ELSE IF ~Predicts(m, num_features) THEN Predicted(None, rows)
       ELSE LET y_pred == [j \in 1..num_valid |-> Label(rows[j])]
                flat == [k \in 1..(H * W) |->
                           IF mask[k] THEN y_pred[Rank(mask, k)] ELSE "nan"]
            IN Predicted([kind |-> "ndarray", shape |-> <<H, W>>,
                          data |-> [h \in 1..H |-> [w \in 1..W |->
                                      flat[(h - 1) * W + w]]]],
                         rows)

\* the call of on_reflectance_updated or apply_classification, both made
\* once classifier.model is not None, on the stack build_feature_stack built
predict_classification ==
  /\ model # None
  /\ LET out == predict_classification_result(model, feature_stack)
     IN /\ model_input' = out.model_input
        /\ label_map' = <<out.result>>
  /\ UNCHANGED <<validateVars, refVars, ctlVars, frameVars, calibVars, reflVars, rasterVars, histVars,
                 geoVars,
                 model, model_path, load_return, feature_stack>>

InitModel ==
  /\ IdleValidate
  /\ IdleFrame
  /\ IdleCalib
  /\ IdleRefl
  /\ IdleRaster
  /\ model = None
  /\ model_path = None
  /\ load_return = NotCalled
  /\ feature_stack \in FeatureStacks
  /\ model_input = NotCalled
  /\ label_map = NotCalled
  /\ IdleGeo
  /\ IdleRef
  /\ IdleControl

NextModel ==
  \/ \E filepath \in ModelFiles : load_model(filepath)
  \/ predict_classification

SpecModel == InitModel /\ [][NextModel]_vars

\* C9: a failed load_model (file missing, file too small, deserialization
\* error, object without predict) returns False and leaves model and
\* model_path as they were; the stored model always has predict.
C9_FailedLoadKeepsModel ==
  [][(\E filepath \in ModelFiles : load_model(filepath))
       => /\ load_return' = <<FALSE>>
               => (model' = model /\ model_path' = model_path)
          /\ model' # None => model'.has_predict]_vars

\* the features of pixel (h, w), read off the stack
PixelRow(stack, h, w) == [f \in 1..stack.shape[1] |-> stack.data[f][h][w]]

AllFinite(row) == \A f \in DOMAIN row : row[f] \notin {"nan", "inf"}

\* the pixels of the stack in row-major order
Pixels(stack) ==
  [k \in 1..(stack.shape[2] * stack.shape[3]) |->
     <<((k - 1) \div stack.shape[3]) + 1, ((k - 1) % stack.shape[3]) + 1>>]

HasValidPixel(stack) ==
  \E h \in 1..stack.shape[2], w \in 1..stack.shape[3] : AllFinite(PixelRow(stack, h, w))

\* the rows of the all-finite pixels, in row-major order
FiniteRows(stack) ==
  LET isFinite(px) == AllFinite(PixelRow(stack, px[1], px[2]))
      finite == SelectSeq(Pixels(stack), isFinite)
  IN [j \in 1..Len(finite) |-> PixelRow(stack, finite[j][1], finite[j][2])]

\* an H x W map with the label of every all-finite pixel in its place and NaN
\* at every other pixel
LabelMapOf(stack, result) ==
  /\ result # None
  /\ result.shape = <<stack.shape[2], stack.shape[3]>>
  /\ \A h \in 1..stack.shape[2], w \in 1..stack.shape[3] :
       result.data[h][w] = IF AllFinite(PixelRow(stack, h, w))
                           THEN Label(PixelRow(stack, h, w)) ELSE "nan"
  /\ Cardinality({px \in (1..stack.shape[2]) \X (1..stack.shape[3]) :
                    result.data[px[1]][px[2]] # "nan"})
       = Len(FiniteRows(stack))

\* a predict_classification step on a stack with a valid pixel
ClassifiesValidStack ==
  /\ predict_classification
  /\ HasValidPixel(feature_stack)

\* C10 as stated: for every stack with at least one valid pixel a stored
\* object with predict is handed exactly the all-finite pixels and the call
\* returns the H x W label map with the labels in place and NaN elsewhere.
C10_AlwaysLabelMap ==
  [][(ClassifiesValidStack /\ model.has_predict)
       => /\ model_input' = FiniteRows(feature_stack)
          /\ LabelMapOf(feature_stack, label_map'[1])]_vars

\* C10: for every stack with at least one valid pixel, a stored object with
\* predict is handed exactly the all-finite pixels; the call returns the
\* H x W label map with the labels in place and NaN elsewhere when predict
\* accepts those rows, and no result when predict raises or is missing.
C10_LabelMapWhenModelPredicts ==
  [][ClassifiesValidStack
       => /\ model.has_predict => model_input' = FiniteRows(feature_stack)
          /\ ~model.has_predict => model_input' = NotCalled
          /\ IF Predicts(model, feature_stack.shape[1])
             THEN LabelMapOf(feature_stack, label_map'[1])
             ELSE label_map'[1] = None]_vars

\* a 2-feature stack with a partly non-finite pixel, classified by the
\* classifier fitted on 2 features
C10_Witness ==
  /\ model = Classifier(2)
  /\ feature_stack # None
  /\ feature_stack.shape[1] = 2
  /\ label_map # NotCalled
  /\ label_map[1] # None
  /\ \E h \in 1..StackShape[1], w \in 1..StackShape[2] :
       /\ PixelRow(feature_stack, h, w) = <<"nan", "1.5">>
       /\ label_map[1].data[h][w] = "nan"
  /\ \E h \in 1..StackShape[1], w \in 1..StackShape[2] : label_map[1].data[h][w] = "1"
  /\ \E h \in 1..StackShape[1], w \in 1..StackShape[2] : label_map[1].data[h][w] = "0"

\* ------------------------------------------------------------------------
\* CoreGeoTransform: homography matrices and their .ini file
\* ------------------------------------------------------------------------
TargetBands == {2, 3, 4}

\* f'H_{i}1'
HKey(i) == HKeys[i]

TargetKeys == {HKey(i) : i \in TargetBands}

\* dict.get(key)
Get(dict, key) == IF key \in DOMAIN dict THEN dict[key] ELSE None

\* CoreGeoTransform.__init__: homography_matrices has the 3 target keys only
NewHomographies == [key \in TargetKeys |-> None]

\* a float: (-1)^neg * mant / 10^dec
Float(neg, mant, dec) == [neg |-> neg, mant |-> mant, dec |-> dec]

RECURSIVE Pow10(_)
Pow10(n) == IF n = 0 THEN 1 ELSE 10 * Pow10(n - 1)

DigitChar(d) ==
  CASE d = 0 -> "0" [] d = 1 -> "1" [] d = 2 -> "2"
    [] d = 3 -> "3" [] d = 4 -> "4" [] d = 5 -> "5"
    [] d = 6 -> "6" [] d = 7 -> "7" [] d = 8 -> "8" [] d = 9 -> "9"

\* the decimal digits of n, at least width of them
RECURSIVE DigitChars(_, _)
DigitChars(n, width) ==
  IF n < 10 /\ width <= 1 THEN <<DigitChar(n)>>
  ELSE Append(DigitChars(n \div 10, width - 1), DigitChar(n % 10))

\* str(val) of a numpy float: the shortest text that reads back as val
PyStr(val) ==
  (IF val.neg THEN <<"-">> ELSE <<>>)
    \o DigitChars(val.mant \div Pow10(val.dec), 1)
    \o <<".">>
    \o DigitChars(val.mant % Pow10(val.dec), val.dec)

\* float(v) of a field of the matrix text: an optional sign, then digits
FloatOf(text) ==
  LET t == Strip(text)
      neg == t # <<>> /\ t[1] = "-"
      body == IF neg THEN Tail(t) ELSE t
      p == PyFloat(body)
  IN [ok |-> p.ok /\ body = Strip(body), val |-> Float(neg, p.mant, p.dec)]

\* ','.join(texts)
RECURSIVE Join(_)
Join(texts) ==
  IF Len(texts) = 0 THEN <<>>
  ELSE IF Len(texts) = 1 THEN texts[1]
  ELSE texts[1] \o <<",">> \o Join(Tail(texts))

\* text.split(',')
RECURSIVE Split(_)
Split(text) ==
  IF \E i \in 1..Len(text) : text[i] = ","
  THEN LET i == CHOOSE k \in 1..Len(text) :
                  text[k] = "," /\ \A j \in 1..(k - 1) : text[j] # ","
       IN <<SubSeq(text, 1, i - 1)>> \o Split(SubSeq(text, i + 1, Len(text)))
  ELSE <<text>>

\* a 3x3 array, row-major
Matrix(dtype, values) == [kind |-> "matrix", dtype |-> dtype, values |-> values]

FZero == Float(FALSE, 0, 1)

FOne == Float(FALSE, 10, 1)

\* np.eye(3, dtype=np.float32)
Eye32 ==
  Matrix("float32", <<FOne, FZero, FZero, FZero, FOne, FZero, FZero, FZero, FOne>>)

\* a matrix cv2.findHomography returns for an automatic estimation
HomAuto ==
  Matrix("float64", <<FOne, Float(TRUE, 5, 1), Float(FALSE, 25, 1),
                      Float(FALSE, 25, 3), FOne, Float(TRUE, 40, 1),
                      FZero, FZero, FOne>>)

\* a matrix cv2.findHomography returns for the manual point pairs
HomManual ==
  Matrix("float64", <<Float(FALSE, 105, 2), FZero, Float(TRUE, 3, 1),
                      FZero, Float(FALSE, 105, 2), Float(FALSE, 12, 1),
                      FZero, FZero, FOne>>)

NoneText == <<"N", "o", "n", "e">>

\* the sections of the file: config[key] = {'matrix': ...}
save_config_ini_file(homography_matrices) ==
  [key \in {HKeys[k] : k \in 1..4} |->
     LET H == Get(homography_matrices, key)
     IN IF H # None
        THEN Join([k \in 1..Len(H.values) |-> PyStr(H.values[k])])
        ELSE NoneText]

\* what load_config_ini does with a file: the dict it returns and
\* self.homography_matrices afterwards; raised when float() or reshape fails
RECURSIVE LoadKeys(_, _, _, _)
LoadKeys(i, file, results, homography_matrices) ==
  IF i > 4
  THEN [raised |-> FALSE, results |-> results,
        homography_matrices |-> homography_matrices]
  ELSE LET key == HKey(i)
           matrix_str == IF key \in DOMAIN file THEN file[key] ELSE NoneText
           fields == Split(matrix_str)
           values == [k \in 1..Len(fields) |-> FloatOf(fields[k])]
           H == Matrix("float64", [k \in 1..Len(fields) |-> values[k].val])
       IN IF matrix_str = NoneText
          THEN LoadKeys(i + 1, file, Put(results, key, None),
                        Put(homography_matrices, key, None))
          ELSE IF (\E k \in 1..Len(fields) : ~values[k].ok) \/ Len(fields) # 9
          THEN [raised |-> TRUE, results |-> results,
                homography_matrices |-> homography_matrices]
          ELSE LoadKeys(i + 1, file, Put(results, key, H),
                        Put(homography_matrices, key, H))

EmptyDict == [key \in {} |-> None]

load_config_ini_result(file, homography_matrices) ==
  IF file = None
  THEN [raised |-> FALSE, results |-> None,
        homography_matrices |-> homography_matrices]
  ELSE LoadKeys(2, file, EmptyDict, homography_matrices)

\* the alignment dialog is the innermost modal dialog
DialogOpen == modal # <<>> /\ modal[Len(modal)].handler = "open_image_alignment"

\* CoreGeoTransform.save_config_ini called on the dialog's geo_transform
save_config_ini ==
  /\ DialogOpen
  /\ config_file' = save_config_ini_file(dlg)
  /\ saved_matrices' = dlg
  /\ UNCHANGED <<validateVars, modelVars, refVars, ctlVars, frameVars, calibVars, reflVars, rasterVars,
                 histVars, geo_transform, dlg, load_results, estimation, failed_keys,
                 warned, signalled>>

\* ImageAlignmentDialog.save_configuration with a save folder chosen: H_11
\* becomes the identity when it is missing, then save_config_ini
save_configuration ==
  /\ DialogOpen
  /\ IF \A k \in 1..4 : Get(dlg, HKeys[k]) = None
     THEN UNCHANGED <<dlg, config_file, saved_matrices>>
     ELSE LET hm == IF Get(dlg, "H_11") = None THEN Put(dlg, "H_11", Eye32) ELSE dlg
          IN /\ dlg' = hm
             /\ config_file' = save_config_ini_file(hm)
             /\ saved_matrices' = hm
  /\ UNCHANGED <<validateVars, modelVars, refVars, ctlVars, frameVars, calibVars, reflVars, rasterVars,
                 histVars, geo_transform, load_results, estimation, failed_keys,
                 warned, signalled>>

\* ImageAlignmentDialog.load_config_file with the path of the written file
\* (or of no file) in the entry: load_config_ini, then the text display
load_config_file ==
  /\ DialogOpen
  /\ LET out == load_config_ini_result(config_file, dlg)
     IN /\ dlg' = out.homography_matrices
        /\ load_results' = <<[raised |-> out.raised, results |-> out.results]>>
        /\ failed_keys' = {}
  /\ UNCHANGED <<validateVars, modelVars, refVars, ctlVars, frameVars, calibVars, reflVars, rasterVars,
                 histVars, geo_transform, config_file, saved_matrices, estimation,
                 warned, signalled>>

\* ------------------------------------------------------------------------
\* SpecConfig: an alignment dialog is open on a received frame and its
\* geo_transform holds any assignment of the keys; the file is written, the
\* dialog is closed and opened again, the file is read
\* ------------------------------------------------------------------------
HomographyAssignments ==
  {hm \in UNION {[D -> {None, Eye32, HomAuto, HomManual}] :
                   D \in {TargetKeys, TargetKeys \cup {"H_11"}}} :
     /\ "H_11" \in DOMAIN hm => hm["H_11"] = Eye32
     /\ \A key \in TargetKeys : hm[key] # Eye32}

InitConfig ==
  /\ IdleValidate
  /\ last_fullframe = Ref(1)
  /\ heap = <<CameraFrame(1)>>
  /\ eventQueue = <<>>
  /\ IdleAlignment
  /\ IdleIngest
  /\ modal = <<Suspended("open_image_alignment", "", "Image Alignment", Ref(1), 0)>>
  /\ savers = [n \in SaverNames |-> NewSaver]
  /\ imwrite = "written"
  /\ IdleCalib
  /\ IdleRefl
  /\ IdleRaster
  /\ IdleModel
  /\ IdleRef
  /\ IdleControl
  /\ geo_transform = None
  /\ dlg \in HomographyAssignments
  /\ config_file = None
  /\ saved_matrices = None
  /\ load_results = NotCalled
  /\ estimation = NotCalled
  /\ failed_keys = {}
  /\ warned = {}
  /\ signalled = {}

NextConfig ==
  \/ save_config_ini
  \/ save_configuration
  \/ load_config_file
  \/ CloseDialog
  \/ open_image_alignment

SpecConfig == InitConfig /\ [][NextConfig]_vars

\* numerically equal floats
SameFloat(a, b) ==
  /\ a.mant * Pow10(b.dec) = b.mant * Pow10(a.dec)
  /\ a.neg = b.neg \/ a.mant = 0

\* both None, or 3x3 matrices with equal entries
SameMatrix(A, B) ==
  IF A = None \/ B = None THEN A = B
  ELSE /\ Len(A.values) = Len(B.values)
       /\ \A k \in 1..Len(A.values) : SameFloat(A.values[k], B.values[k])

\* load_config_ini reads a file save_config_ini wrote
LoadsWrittenFile == load_config_file /\ config_file # None

\* C11: save_config_ini followed by load_config_ini of the written file
\* reproduces, for each of H_11, H_21, H_31, H_41, the matrix that was saved
\* (numerically equal entries) or None where none was saved; the loading
\* object's homography_matrices are what is compared.
C11_RoundTrip ==
  [][LoadsWrittenFile
       => \A k \in 1..4 :
            SameMatrix(Get(saved_matrices, HKeys[k]), Get(dlg', HKeys[k]))]_vars

\* ------------------------------------------------------------------------
\* CoreGeoTransform.automatic_transformation_estimation
\* ------------------------------------------------------------------------
\* the floor of the automatic path: len(good_matches) >= 4
MinGoodMatches == 4

\* what a band image gives: no keypoints (detectAndCompute returns
\* descriptors None), descriptors of which fewer than 4 pass the ratio test,
\* enough matches but no RANSAC solution, enough matches and a solution
TargetFeatures == {"no_descriptors", "few_matches", "no_solution", "solved"}

\* the reference band either has descriptors or has none
BandFeatures ==
  {f \in [Bands -> TargetFeatures] : f[1] \in {"no_descriptors", "solved"}}

\* len(good_matches) after the ratio test
GoodMatches(feature) ==
  CASE feature = "no_descriptors" -> 0
    [] feature = "few_matches" -> MinGoodMatches - 1
    [] OTHER -> MinGoodMatches

\* bf.knnMatch(des_target, des_ref, k=2): an empty query gives no matches;
\* a query against an empty train set fails the column check of
\* batchDistance with cv2.error
knnMatch_raises(des_target, des_ref) ==
  des_target # "no_descriptors" /\ des_ref = "no_descriptors"

\* cv2.findHomography(src_pts, dst_pts, cv2.RANSAC, 5.0)
findHomography(feature, H) == IF feature = "solved" THEN H ELSE None

EstimationOutcome(kind, raised, results, matches, homography_matrices) ==
  [kind |-> kind, raised |-> raised, results |-> results, matches |-> matches,
   homography_matrices |-> homography_matrices]

\* the loop over the target bands 2, 3, 4
RECURSIVE EstimationLoop(_, _, _, _, _)
EstimationLoop(i, features, results, matches, homography_matrices) ==
  IF i > 4
  THEN EstimationOutcome("automatic", FALSE, results, matches, homography_matrices)
  ELSE IF knnMatch_raises(features[i], features[1])
  THEN EstimationOutcome("automatic", TRUE, results, matches, homography_matrices)
  ELSE LET good == GoodMatches(features[i])
           H == IF good >= MinGoodMatches
                THEN findHomography(features[i], HomAuto) ELSE None
       IN EstimationLoop(i + 1, features, Put(results, HKey(i), H),
                         Put(matches, HKey(i), good),
                         Put(homography_matrices, HKey(i), H))

automatic_transformation_estimation(features, homography_matrices) ==
  EstimationLoop(2, features, EmptyDict, EmptyDict, homography_matrices)

\* the keys the run left without a homography
Failed(outcome) ==
  {key \in DOMAIN outcome.results : outcome.results[key] = None}

\* ImageAlignmentDialog.automatic_transformation on the 4 band images
automatic_transformation(features) ==
  /\ DialogOpen
  /\ LET out == automatic_transformation_estimation(features, dlg)
     IN /\ dlg' = out.homography_matrices
        /\ estimation' = <<out>>
        /\ failed_keys' = (failed_keys \ DOMAIN out.results) \cup Failed(out)
  /\ UNCHANGED <<validateVars, modelVars, refVars, ctlVars, frameVars, calibVars, reflVars, rasterVars,
                 histVars, geo_transform, config_file, saved_matrices, load_results,
                 warned, signalled>>

\* len(self.manual_points) when the button is pressed
ManualPointCounts == {3, 4}

\* ImageAlignmentDialog.calculate_manual_transformation: H_11 is the
\* identity; a band without a solution keeps what homography_matrices held
calculate_manual_transformation(points, features) ==
  /\ DialogOpen
  /\ IF points < 4
     THEN UNCHANGED <<dlg, estimation, failed_keys>>
     ELSE LET H(i) == findHomography(features[i], HomManual)
              results == [key \in {HKeys[k] : k \in 1..4} |->
                            IF key = "H_11" THEN Eye32
                            ELSE H(CHOOSE i \in TargetBands : HKey(i) = key)]
              hm == [key \in DOMAIN dlg \cup {"H_11"} |->
                       IF Get(results, key) # None THEN results[key] ELSE dlg[key]]
              out == EstimationOutcome("manual", FALSE, results,
                                       [key \in TargetKeys |-> points], hm)
          IN /\ dlg' = hm
             /\ estimation' = <<out>>
             /\ failed_keys' = Failed(out)
  /\ UNCHANGED <<validateVars, modelVars, refVars, ctlVars, frameVars, calibVars, reflVars, rasterVars,
                 histVars, geo_transform, config_file, saved_matrices, load_results,
                 warned, signalled>>

\* ImageAlignmentDialog.on_apply_clicked, then the Accepted branch of
\* CameraViewerTab.open_image_alignment: self.geo_transform = dlg.geo_transform
on_apply_clicked ==
  /\ DialogOpen
  /\ IF \A key \in DOMAIN dlg : dlg[key] = None
     THEN UNCHANGED <<modal, geo_transform, dlg, signalled, load_results,
                      estimation, failed_keys>>
     ELSE /\ modal' = SubSeq(modal, 1, Len(modal) - 1)
          /\ geo_transform' = dlg
          /\ dlg' = None
          /\ load_results' = NotCalled
          /\ estimation' = NotCalled
          /\ failed_keys' = {}
          /\ signalled' = {key \in signalled :
                             /\ geo_transform # None
                             /\ Get(geo_transform, key) = None
                             /\ Get(dlg, key) = None}
  /\ UNCHANGED <<validateVars, modelVars, refVars, ctlVars, slotVars, alignVars, ingestVars, savers,
                 imwrite, last_read, calibVars, reflVars, rasterVars, histVars,
                 config_file, saved_matrices, warned>>

\* CameraViewerTab.toggle_image_alignment
toggle_image_alignment(state) ==
  /\ modal = <<>>
  /\ alignment_enabled' = (state /\ geo_transform # None)
  /\ alignment_enabled' # alignment_enabled
  /\ UNCHANGED <<validateVars, modelVars, refVars, ctlVars, geoVars, slotVars, last_aligned_frame,
                 ingestVars, saveVars, last_read, calibVars, reflVars, rasterVars,
                 histVars>>

\* ------------------------------------------------------------------------
\* SpecEstimate: an alignment dialog is open on a received frame;
\* homographies are estimated automatically and from point pairs, and the
\* dialog is closed and opened again
\* ------------------------------------------------------------------------
InitEstimate ==
  /\ IdleValidate
  /\ last_fullframe = Ref(1)
  /\ heap = <<CameraFrame(1)>>
  /\ eventQueue = <<>>
  /\ IdleAlignment
  /\ IdleIngest
  /\ modal = <<Suspended("open_image_alignment", "", "Image Alignment", Ref(1), 0)>>
  /\ savers = [n \in SaverNames |-> NewSaver]
  /\ imwrite = "written"
  /\ IdleCalib
  /\ IdleRefl
  /\ IdleRaster
  /\ IdleModel
  /\ IdleRef
  /\ IdleControl
  /\ geo_transform = None
  /\ dlg = NewHomographies
  /\ config_file = None
  /\ saved_matrices = None
  /\ load_results = NotCalled
  /\ estimation = NotCalled
  /\ failed_keys = {}
  /\ warned = {}
  /\ signalled = {}

NextEstimate ==
  \/ \E features \in BandFeatures : automatic_transformation(features)
  \/ \E points \in ManualPointCounts, features \in BandFeatures :
       calculate_manual_transformation(points, features)
  \/ CloseDialog
  \/ open_image_alignment

SpecEstimate == InitEstimate /\ [][NextEstimate]_vars

\* ------------------------------------------------------------------------
\* SpecAlign: frames arrive, the alignment dialog is opened on the current
\* frame, homographies are estimated and accepted or dropped, and live
\* alignment is switched on and off
\* ------------------------------------------------------------------------
\* band images with descriptors everywhere: each target band either gets a
\* homography or has too few matches
LiveFeatures ==
  {f \in BandFeatures :
     f[1] = "solved" /\ \A i \in TargetBands : f[i] \in {"few_matches", "solved"}}

InitAlign ==
  /\ IdleValidate
  /\ last_fullframe = None
  /\ heap = [k \in 1..MaxFrames |-> CameraFrame(k)]
  /\ eventQueue = [k \in 1..MaxFrames |-> Ref(k)]
  /\ IdleAlignment
  /\ IdleIngest
  /\ IdleSave
  /\ IdleCalib
  /\ IdleRefl
  /\ IdleRaster
  /\ IdleModel
  /\ IdleGeo
  /\ IdleRef
  /\ IdleControl

NextAlign ==
  \/ on_frame_received
  \/ update_frames
  \/ open_image_alignment
  \/ CloseDialog
  \/ \E features \in LiveFeatures : automatic_transformation(features)
  \/ on_apply_clicked
  \/ \E state \in BOOLEAN : toggle_image_alignment(state)

SpecAlign == InitAlign /\ [][NextAlign]_vars

\* C12: automatic_transformation_estimation finishes without raising for
\* every 4 band images and leaves each target band with a homography
\* estimated from at least 4 accepted matches or with None, also when a band
\* has no descriptors, fewer than 4 matches or no RANSAC solution.
C12_EstimationNeverRaises ==
  (estimation # NotCalled /\ estimation[1].kind = "automatic")
    => /\ ~estimation[1].raised
       /\ DOMAIN estimation[1].results = TargetKeys
       /\ \A key \in TargetKeys :
            estimation[1].results[key] # None
              => estimation[1].matches[key] >= MinGoodMatches

\* update_frames runs apply_alignment on the frame in the slot
AlignsFrame ==
  update_frames /\ last_fullframe # None /\ alignment_enabled /\ geo_transform # None

\* C13: in the live alignment path band 1 is passed through unchanged, a
\* target band with a homography is warped with that homography, and a
\* target band without one is passed through unchanged with the operator
\* warned about that band since its homography became absent.
C13_DegradedAlignmentSignalled ==
  [][AlignsFrame
       => LET frame == Deref(heap, last_fullframe)
              band(i) == Columns(frame, (i - 1) * FRAME_W, i * FRAME_W)
              aligned == Deref(heap', last_aligned_frame').src[2]
          IN /\ aligned[1] = band(1)
             /\ \A i \in TargetBands :
                  IF Get(geo_transform, HKey(i)) = None
                  THEN aligned[i] = band(i) /\ HKey(i) \in signalled'
                  ELSE aligned[i] = warpPerspective(band(i), geo_transform[HKey(i)])]_vars

\* C20: a band whose latest estimation (automatic or manual) failed is left
\* in a state that differs from the one it had before any estimation.
C20_FailureDistinguishable ==
  \A key \in failed_keys : Get(dlg, key) # NewHomographies[key]

\* ------------------------------------------------------------------------
\* Raster store under failing evaluations
\* ------------------------------------------------------------------------
\* texts typed in the store runs: evaluable, failing in eval on every tile,
\* failing in eval on the tiles of some frames only
StoreTexts == {ExprR1PlusR2, ExprAttribute, ExprIntMin}

\* the store runs start with the 4 reference radiances typed
InitStore == InitRaster

\* the operator buttons of the Raster Calculation tab and the two timers
\* that feed it
NextStore ==
  \/ on_frame_received
  \/ load_bg_image(TRUE)
  \/ update_reflectance_display
  \/ \E text \in StoreTexts : EditExpression(text)
  \/ apply_raster_expression
  \/ reset_raster_expression

SpecStore == InitStore /\ [][NextStore]_vars

\* apply_raster_expression reaches eval() with an accepted text that raises
ApplyEvalFails ==
  /\ apply_raster_expression
  /\ validate_expression(Strip(ras_func_txt))[1]
  /\ current_reflectance_tiles # None
  /\ EvalRaises(Strip(ras_func_txt), current_reflectance_tiles.items)

\* C14: when the evaluation of an applied expression raises, the call yields
\* no result, and the stored rasters, their expressions, the dropdown and the
\* raster counter are exactly as before the call.
C14_FailedEvaluationLeavesStore ==
  [][ApplyEvalFails =>
       /\ last_apply'[1].outcome = "eval_failed"
       /\ UNCHANGED <<calculated_rasters, raster_expressions, raster_counter,
                      ras_calc_list>>]_vars

\* a raster is stored and the latest apply failed in eval()
C14_Witness ==
  /\ last_apply # NotCalled
  /\ last_apply[1].outcome = "eval_failed"
  /\ raster_counter = 1
  /\ RasterName(1) \in DOMAIN calculated_rasters

\* C16: the counter the names 'Raster N' are derived from never decreases
\* over add_calculated_raster and clear_all_rasters, so that no name is
\* given to a second raster after the rasters were removed.
C16_NamesNeverReused == [][raster_counter' >= raster_counter]_vars

\* the refresh computes 4 tiles from the frame in the slot
RefreshComputes ==
  /\ update_reflectance_display
  /\ last_fullframe # None
  /\ LET out == calculate_reflectance(Deref(heap, FrameToUse), bg_tiles, expo_sliders,
                                      ref_cam_entries, EXPO_MS,
                                      warning_invalid_params_shown)
     IN ~out.raised /\ out.result # None

\* C15: on every reflectance update the batch re-evaluation completes (the
\* refresh reports its tiles), a stored raster whose expression raises on the
\* new tiles keeps its previous array, and every other stored raster holds
\* the value of its expression on the new tiles.
C15_BatchToleratesFailures ==
  [][RefreshComputes =>
       /\ reflectance_calculated'
       /\ \A name \in DOMAIN calculated_rasters :
            /\ name \in DOMAIN calculated_rasters'
            /\ raster_expressions'[name] = raster_expressions[name]
            /\ calculated_rasters'[name] =
                 IF EvalRaises(raster_expressions[name], current_reflectance_tiles'.items)
                 THEN calculated_rasters[name]
                 ELSE evaluate_expression(raster_expressions[name],
                                          current_reflectance_tiles')]_vars

\* Raster 1 failed on the tiles of frame 2 and kept the array of frame 1,
\* while the overlay was re-evaluated on the tiles of frame 2
C15_Witness ==
  /\ reflectance_calculated
  /\ current_reflectance_tiles # None
  /\ current_reflectance_tiles.items[1].id = 2
  /\ RasterName(1) \in DOMAIN calculated_rasters
  /\ raster_expressions[RasterName(1)] = ExprIntMin
  /\ calculated_rasters[RasterName(1)].id = 1
  /\ OverlayName \in DOMAIN calculated_rasters
  /\ calculated_rasters[OverlayName].id = 2

\* ------------------------------------------------------------------------
\* Stopping the receiver thread
\* ------------------------------------------------------------------------
\* what the PUB side sends in the stream runs
StreamPayloadKinds == {"frame", "undecodable", EmptyPayload}

InitStream == InitIngest

\* the camera, the receiver thread, and the main thread, whose slots do not
\* run while it is inside wait()
NextStream ==
  \/ \E kind \in StreamPayloadKinds : Publish(kind)
  \/ ZMQReceiverThread_recv
  \/ ZMQReceiverThread_emit
  \/ ZMQReceiverThread_msleep
  \/ ZMQReceiverThread_close
  \/ start_zmq_streaming_stop
  \/ start_zmq_streaming_start
  \/ ~WaitsForThread /\ on_frame_received
  \/ ~WaitsForThread /\ update_frames

SpecStream == InitStream /\ [][NextStream]_vars

\* the operating system keeps scheduling the receiver thread
FairStream ==
  /\ SpecStream
  /\ WF_vars(ZMQReceiverThread_recv)
  /\ WF_vars(ZMQReceiverThread_emit)
  /\ WF_vars(ZMQReceiverThread_msleep)
  /\ WF_vars(ZMQReceiverThread_close)

\* once stop is requested, run() ends
StopLeadsToExit == zmq_thread.interruption ~> ~isRunning(zmq_thread)

\* C17: on every path by which run() ends, after a requested stop or
\* otherwise, sock.close() has run before the thread exits.
C17_SocketClosedBeforeExit == ~isRunning(zmq_thread) => zmq_thread.closed

\* ------------------------------------------------------------------------
\* Reference radiance: CoreRefRadianceEstimator, load_reference_image and the
\* reference buttons of the Calibration tab
\* ------------------------------------------------------------------------
\* Python: text.split(sep)
RECURSIVE SplitOn(_, _)
SplitOn(text, sep) ==
  IF \E i \in 1..Len(text) : text[i] = sep
  THEN LET i == CHOOSE k \in 1..Len(text) :
                  text[k] = sep /\ \A j \in 1..(k - 1) : text[j] # sep
       IN <<SubSeq(text, 1, i - 1)>> \o SplitOn(SubSeq(text, i + 1, Len(text)), sep)
  ELSE <<text>>

\* os.path.basename(path)
basename(path) ==
  LET slashes == {i \in 1..Len(path) : path[i] = "/"}
  IN IF slashes = {} THEN path
     ELSE SubSeq(path, (CHOOSE i \in slashes : \A j \in slashes : j <= i) + 1, Len(path))

\* os.path.splitext(base)[0]: the last dot starts the extension unless only
\* dots precede it
splitext(base) ==
  LET dots == {i \in 1..Len(base) : base[i] = "." /\ \E j \in 1..(i - 1) : base[j] # "."}
  IN IF dots = {} THEN base
     ELSE SubSeq(base, 1, (CHOOSE i \in dots : \A j \in dots : j <= i) - 1)

\* int(text): blanks stripped, an optional sign, then decimal digits only
PyInt(text) ==
  LET t == Strip(text)
      signed == t # <<>> /\ t[1] \in {"+", "-"}
      body == IF signed THEN Tail(t) ELSE t
  IN IF body # <<>> /\ \A i \in 1..Len(body) : body[i] \in Digits
     THEN [ok |-> TRUE, val |-> IF signed /\ t[1] = "-" THEN 0 - DigitsValue(body)
                                ELSE DigitsValue(body)]
     ELSE [ok |-> FALSE, val |-> 0]

\* "d/a_b_100_200_50_0.png"
PathA ==
  <<"d", "/", "a", "_", "b", "_", "1", "0", "0", "_", "2",
    "0", "0", "_", "5", "0", "_", "0", ".", "p", "n", "g">>

\* "d/a_b_200_100_100_100.png"
PathB ==
  <<"d", "/", "a", "_", "b", "_", "2", "0", "0", "_", "1", "0",
    "0", "_", "1", "0", "0", "_", "1", "0", "0", ".", "p", "n", "g">>

\* "d/a_100_200_50_0.png": 5 tokens, the last 4 of them integers
PathShort ==
  <<"d", "/", "a", "_", "1", "0", "0", "_", "2", "0",
    "0", "_", "5", "0", "_", "0", ".", "p", "n", "g">>

\* "d/a_b_100_x_50_0.png"
PathWord ==
  <<"d", "/", "a", "_", "b", "_", "1", "0", "0", "_",
    "x", "_", "5", "0", "_", "0", ".", "p", "n", "g">>

\* "d/c_d_100_100_100_100.png", no image
PathUnreadable ==
  <<"d", "/", "c", "_", "d", "_", "1", "0", "0", "_", "1", "0",
    "0", "_", "1", "0", "0", "_", "1", "0", "0", ".", "p", "n", "g">>

\* "d/e_f_100_100_100_100.png", an image of one band only
PathNarrow ==
  <<"d", "/", "e", "_", "f", "_", "1", "0", "0", "_", "1", "0",
    "0", "_", "1", "0", "0", "_", "1", "0", "0", ".", "p", "n", "g">>

\* the files the operator can pick: path, what cv2.imread returns for it
RefFile(path, shape, id) == [path |-> path, shape |-> shape, id |-> id]

ReferenceFiles ==
  {RefFile(PathA, <<FRAME_H, FULL_W>>, 1),
   RefFile(PathB, <<FRAME_H, FULL_W>>, 2),
   RefFile(PathShort, <<FRAME_H, FULL_W>>, 3),
   RefFile(PathWord, <<FRAME_H, FULL_W>>, 4),
   RefFile(PathUnreadable, <<>>, 5),
   RefFile(PathNarrow, <<FRAME_H, FRAME_W>>, 6)}

\* cv2.imread(path, cv2.IMREAD_GRAYSCALE)
imread(path) ==
  IF \E f \in ReferenceFiles : f.path = path /\ f.shape # <<>>
  THEN LET f == CHOOSE g \in ReferenceFiles : g.path = path
       IN Array(<<"imread", path>>, f.shape, f.id)
  ELSE None

\* load_reference_image(entry, labels, tiles_store, path): the tiles stored
load_reference_image(tiles_store, path) ==
  LET img == imread(path)
  IN IF img = None THEN tiles_store
     ELSE IF img.shape # <<FRAME_H, FULL_W>> THEN tiles_store
     ELSE [i \in 1..4 |-> Columns(img, (i - 1) * FRAME_W, i * FRAME_W)]

\* CalibrationTab.select_ref_file, the dialog answered with a file
select_ref_file(path) ==
  /\ ref_img_dir_path' = path
  /\ UNCHANGED <<validateVars, modelVars, geoVars, ctlVars, frameVars, calibVars, reflVars,
                 rasterVars, histVars, ref_tiles, last_estimate>>

\* CalibrationTab.load_ref_image with load_reference_image, which writes the
\* path into the entry before it reads the file
load_ref_image ==
  /\ Strip(ref_img_dir_path) # <<>>
  /\ ref_img_dir_path' = Strip(ref_img_dir_path)
  /\ ref_tiles' = load_reference_image(ref_tiles, Strip(ref_img_dir_path))
  /\ UNCHANGED <<validateVars, modelVars, geoVars, ctlVars, frameVars, calibVars, reflVars,
                 rasterVars, histVars, last_estimate>>

\* float(np.mean(roi)) of the centre window of a reference tile: the panel
\* fills the window of every reference image alike
roi_mean(tile) == 100

\* float(bg_cam_entries[i].text()), 0.0 when that raises
bg_val(text) ==
  LET f == PyFloat(text)
  IN IF f.ok /\ f.dec = 0 THEN f.mant ELSE 0

\* (mean_val - bg_val) / exp_ms in hundredths, rounded to the nearest one,
\* exp_ms being expo100 / 100.0, or 1.0 for an expo100 of 0
ref_rad(mean_val, bg, expo100) ==
  IF expo100 = 0 THEN (mean_val - bg) * 100
  ELSE (2 * (mean_val - bg) * 10000 + expo100) \div (2 * expo100)

\* f"{ref_rad:.2f}"
Format2f(hundredths) ==
  DigitChars(hundredths \div 100, 1) \o <<".">> \o DigitChars(hundredths % 100, 2)

\* expo100_vals with an exposure of 1 ms substituted for each token that is
\* missing or no integer
expo100_vals_Default(ref_path) ==
  LET parts == SplitOn(splitext(basename(ref_path)), "_")
      n == Len(parts)
  IN [warning |-> "",
      vals |-> [k \in 1..4 |-> IF n - 4 + k >= 1 /\ PyInt(parts[Max(1, n - 4 + k)]).ok
                               THEN PyInt(parts[Max(1, n - 4 + k)]).val ELSE 100]]

\* the exposure tokens of a file name: parts[-4:] as integers, or why not
expo100_vals(ref_path) ==
  LET parts == SplitOn(splitext(basename(ref_path)), "_")
      n == Len(parts)
  IN IF n < 6 THEN [warning |-> "Filename Error", vals |-> <<>>]
     ELSE IF \E k \in (n - 3)..n : ~PyInt(parts[k]).ok
     THEN [warning |-> "Filename Error", vals |-> <<>>]
     ELSE [warning |-> "", vals |-> [k \in 1..4 |-> PyInt(parts[n - 4 + k]).val]]

\* CoreRefRadianceEstimator.estimate_reference_radiance: the entries after it
\* and what it reports
estimate_reference_radiance(ref_entry, tiles, entries, bg_text) ==
  LET ref_path == Strip(ref_entry)
      parsed == expo100_vals(ref_path)
  IN IF ref_path = <<>>
     THEN [warning |-> "No Reference Image", entries |-> entries, vals |-> <<>>]
     ELSE IF parsed.warning # ""
     THEN [warning |-> parsed.warning, entries |-> entries, vals |-> <<>>]
     ELSE [warning |-> "",
           entries |-> [i \in 1..4 |->
                          IF tiles[i] = None THEN entries[i]
                          ELSE Format2f(ref_rad(roi_mean(tiles[i]), bg_val(bg_text),
                                                parsed.vals[i]))],
           vals |-> parsed.vals]

\* texts of the background entries of Tab 2: nothing estimated yet, or "50"
BgEntryTexts == {<<>>, <<"5", "0">>}

\* CalibrationTab.estimate_ref_radiance
estimate_ref_radiance(bg_text) ==
  LET out == estimate_reference_radiance(ref_img_dir_path, ref_tiles, ref_cam_entries,
                                         bg_text)
  IN /\ ref_cam_entries' = out.entries
     /\ last_estimate' = <<[warning |-> out.warning,
                            ref_path |-> Strip(ref_img_dir_path),
                            vals |-> out.vals,
                            tiles |-> ref_tiles]>>
     /\ UNCHANGED <<validateVars, modelVars, geoVars, ctlVars, frameVars, bg_tiles, expo_sliders,
                    EXPO_MS_arg, reflVars, rasterVars, histVars, ref_img_dir_path,
                    ref_tiles>>

InitReference ==
  /\ IdleValidate
  /\ IdleFrame
  /\ IdleCalib
  /\ IdleRefl
  /\ IdleRaster
  /\ IdleModel
  /\ IdleGeo
  /\ IdleRef
  /\ IdleControl

\* the reference buttons and the first radiance entry of the Calibration tab
NextReference ==
  \/ \E f \in ReferenceFiles : select_ref_file(f.path)
  \/ load_ref_image
  \/ \E bg_text \in BgEntryTexts : estimate_ref_radiance(bg_text)
  \/ SetRefEntry(1, EntryValid)

SpecReference == InitReference /\ [][NextReference]_vars

\* the file whose pixels a stored tile holds
ImageOf(tile) == tile.src[2][2]

\* C18: the exposure tokens estimate_reference_radiance parses come from the
\* file name of the image whose pixels are stored as reference tiles: every
\* band whose radiance it computed holds the pixels of the file it parsed.
C18_ExposuresOfStoredImage ==
  (last_estimate # NotCalled /\ last_estimate[1].warning = "")
    => \A i \in 1..4 : last_estimate[1].tiles[i] # None
                         => ImageOf(last_estimate[1].tiles[i]) = last_estimate[1].ref_path

\* estimate_reference_radiance runs on a file name it cannot parse
EstimateUnparseable ==
  /\ \E bg_text \in BgEntryTexts : estimate_ref_radiance(bg_text)
  /\ Strip(ref_img_dir_path) # <<>>
  /\ LET parts == SplitOn(splitext(basename(Strip(ref_img_dir_path))), "_")
     IN \/ Len(parts) < 6
        \/ \E k \in (Len(parts) - 3)..Len(parts) : ~PyInt(parts[k]).ok

\* C19: for a reference file name with fewer than 6 underscore-separated
\* tokens, or whose last 4 tokens are not all integers, the estimation
\* reports an error and leaves every band's radiance entry as it was.
C19_UnparseableNameChangesNothing ==
  [][EstimateUnparseable =>
       /\ last_estimate'[1].warning = "Filename Error"
       /\ ref_cam_entries' = ref_cam_entries]_vars

\* tiles are stored, a radiance is typed, and the latest estimation refused
\* the file name
C19_Witness ==
  /\ last_estimate # NotCalled
  /\ last_estimate[1].warning = "Filename Error"
  /\ \A i \in 1..4 : ref_tiles[i] # None
  /\ ref_cam_entries[1] = EntryValid

\* ------------------------------------------------------------------------
\* The reasons of validate_expression
\* ------------------------------------------------------------------------
\* the text has one of R1..R4 among its names
ReferencesBand(text) ==
  \E i \in 1..Len(Tokens(text)) :
    Tokens(text)[i].k = "name" /\ Tokens(text)[i].s \in BandNames

\* what the validator is to answer for a text
ExpectedValidation(text) ==
  IF Strip(text) = <<>> THEN <<FALSE, MsgEmpty>>
  ELSE IF \E i \in 1..Len(text) : text[i] \notin AllowedChars THEN <<FALSE, MsgInvalidChars>>
  ELSE IF ~ReferencesBand(text) THEN <<FALSE, MsgNoBand>>
  ELSE <<TRUE, "">>

\* C23: validate_expression rejects, each with its own reason string, an
\* empty or blank text, a text with a character outside the allow-set, and a
\* text that references no band name R1..R4, and accepts any other text.
C23_RejectsWithSpecificReason ==
  validation # NotCalled => validation = ExpectedValidation(expression)

\* ------------------------------------------------------------------------
\* Exposure levels: the register write, the status label, the reflectance and
\* the file name of a saved image
\* ------------------------------------------------------------------------
\* levels a slider or a caller supplies, within 1..12 and outside
ExpoLevels == {0 - 1, 0, 1, 12, 13}

\* the bands whose slider is moved in the exposure runs
ExpoBands == {1, 4}

\* how the SSH transport of a remote command ends
Transports == {"ok", "unreachable", "timeout"}

\* the address detect_camera_ip found, a str
CameraAddress == [kind |-> "str", value |-> "192.168.2.50"]

\* CameraGainExposure.set_camera_expo: the command and how it ends; the except
\* clause prints the error and returns
set_camera_expo(ip, cam_index, level, transport) ==
  IF ip = None THEN NotCalled
  ELSE <<[op |-> "set_camera_expo",
          expo_val |-> PyIndex(EXPO_ABS, ClampedIndex(level)),
          failed |-> transport # "ok",
          attempts |-> 1,
          raised |-> FALSE,
          error_shown |-> FALSE]>>

\* CameraGainExposure.update_status_label: the text f"{ms:.2f}" it emits
update_status_label(level) == Format2f(PyIndex(EXPO_MS, ClampedIndex(level)))

\* CameraViewerTab.on_expo_changed, the slot of valueChanged of slider cam_idx
on_expo_changed(cam_idx, expo_val, transport) ==
  /\ expo_sliders[cam_idx] # expo_val
  /\ expo_sliders' = [expo_sliders EXCEPT ![cam_idx] = expo_val]
  /\ LET sent == set_camera_expo(CAMERA_IP, cam_idx, expo_val, transport)
     IN remote' = IF sent = NotCalled THEN remote ELSE sent
  /\ expo_status_labels' = [expo_status_labels EXCEPT ![cam_idx] = update_status_label(expo_val)]
  /\ UNCHANGED <<validateVars, modelVars, refVars, geoVars, frameVars, bg_tiles, ref_cam_entries,
                 EXPO_MS_arg, reflVars, rasterVars, histVars, CAMERA_IP>>

\* f"{n:04d}"
Format04d(n) == DigitChars(n, 4)

\* CoreRawImageSave.save_frame_if_active: the 4 exposure fields of fname
FileNameFields(saver) == [k \in 1..4 |-> Format04d(saver.exp_ms100[k])]

\* a frame is in the slot, the background is loaded, the raw saver is on,
\* and the camera is connected or not
InitExposure ==
  /\ IdleValidate
  /\ last_fullframe = Ref(1)
  /\ heap = <<CameraFrame(1)>>
  /\ eventQueue = <<>>
  /\ IdleAlignment
  /\ IdleIngest
  /\ modal = <<>>
  /\ savers = [n \in SaverNames |->
                 [NewSaver EXCEPT !.save_dir = TRUE, !.save_active = TRUE]]
  /\ imwrite = "written"
  /\ bg_tiles = [i \in Bands |-> BgTile(i)]
  /\ expo_sliders = [i \in Bands |-> 1]
  /\ ref_cam_entries = [i \in Bands |-> EntryValid]
  /\ EXPO_MS_arg = EXPO_MS
  /\ IdleRefl
  /\ IdleRaster
  /\ IdleModel
  /\ IdleGeo
  /\ IdleRef
  /\ CAMERA_IP \in {None, CameraAddress}
  /\ remote = NotCalled
  /\ expo_status_labels = [i \in 1..4 |-> <<>>]

NextExposure ==
  \/ \E i \in ExpoBands, level \in ExpoLevels, transport \in Transports :
       on_expo_changed(i, level, transport)
  \/ update_frames
  \/ CallCalculateReflectance
  \/ save_if_active

SpecExposure == InitExposure /\ [][NextExposure]_vars

\* the table entry of a level clamped to 1..12
Clamped(table, level) ==
  table[IF level < 1 THEN 1 ELSE IF level > 12 THEN 12 ELSE level]

\* C22: every lookup into EXPO_ABS and EXPO_MS uses the level clamped to
\* 1..12, for levels below 1 and above 12 too: the register write sends the
\* clamped entry of EXPO_ABS, and the status label, the reflectance and the
\* exposures kept for the file name hold the clamped entry of EXPO_MS.
C22_LookupsClamped ==
  [][/\ (\E i \in ExpoBands, level \in ExpoLevels, transport \in Transports :
            on_expo_changed(i, level, transport))
          => \A i \in Bands :
               expo_sliders'[i] # expo_sliders[i]
                 => /\ expo_status_labels'[i] = Format2f(Clamped(EXPO_MS, expo_sliders'[i]))
                    /\ CAMERA_IP # None
                         => remote'[1].expo_val = Clamped(EXPO_ABS, expo_sliders'[i])
     /\ update_frames
          => \A i \in Bands :
               savers'["raw_save"].exp_ms100[i] = Clamped(EXPO_MS, expo_sliders[i])
     /\ (CallCalculateReflectance /\ refl_return'[1] # None)
          => \A i \in Bands :
               refl_return'[1].items[i].src[4] = Clamped(EXPO_MS_arg, expo_sliders[i])]_vars

\* a level above 12 on band 1 and one below 1 on band 4 went through the
\* register write, the status labels, the reflectance and the saver
C22_Witness ==
  /\ expo_sliders[1] = 13
  /\ expo_sliders[4] = 0 - 1
  /\ remote # NotCalled
  /\ expo_status_labels[1] = Format2f(EXPO_MS[12])
  /\ expo_status_labels[4] = Format2f(EXPO_MS[1])
  /\ savers["raw_save"].exp_ms100[1] = EXPO_MS[12]
  /\ refl_return # NotCalled
  /\ refl_return[1] # None
  /\ refl_return[1].items[1].src[4] = EXPO_MS[12]

\* C21: a remote command that fails in transport does not raise into its
\* caller, is sent once, and is shown to the operator as an error.
C21_TransportFailureSurfaced ==
  (remote # NotCalled /\ remote[1].failed)
    => /\ ~remote[1].raised
       /\ remote[1].attempts = 1
       /\ remote[1].error_shown

\* C25: each exposure field of the file name of a saved image is the band's
\* exposure in milliseconds times 100 in exactly 4 decimal digits, for every
\* combination of levels 1..12.
C25_FourDigitFields ==
  [][(update_frames /\ \A i \in Bands : expo_sliders[i] \in 1..12)
       => \A i \in Bands :
            /\ Len(FileNameFields(savers'["raw_save"])[i]) = 4
            /\ FileNameFields(savers'["raw_save"])[i] = DigitChars(EXPO_MS[expo_sliders[i]], 4)]_vars

\* C29: at most one ingestion thread runs at any time: when
\* start_zmq_streaming starts a thread, no thread started earlier still runs.
C29_AtMostOneThread == zmq_thread.others = 0

\* start_zmq_streaming stopped a running thread, waited, and the thread it
\* started then took a message from the socket
C29_Witness ==
  /\ zmq_thread.restarted
  /\ zmq_thread.pc = "imdecode"
  /\ zmq_thread.others = 0

\* C30: the stored arrays and the recorded expressions always have the same
\* set of names, and the periodic re-evaluation adds and removes no name (the
\* refresh changes the names only by the overlay ensure_overlay_raster makes).
C30_SameNames ==
  [][/\ DOMAIN calculated_rasters' = DOMAIN raster_expressions'
     /\ update_reflectance_display
          => DOMAIN calculated_rasters' \ {OverlayName}
               = DOMAIN calculated_rasters \ {OverlayName}]_vars

\* the overlay and Raster 1 are stored under both, and Raster 1 was
\* re-evaluated on the tiles of frame 2
C30_Witness ==
  /\ reflectance_calculated
  /\ current_reflectance_tiles # None
  /\ current_reflectance_tiles.items[1].id = 2
  /\ DOMAIN calculated_rasters = {OverlayName, RasterName(1)}
  /\ DOMAIN raster_expressions = {OverlayName, RasterName(1)}
  /\ calculated_rasters[RasterName(1)].id = 2

\* ------------------------------------------------------------------------
\* SpecLoad: configuration files edited by hand are selected and read into a
\* dialog whose geo_transform holds any assignment of the keys
\* ------------------------------------------------------------------------
\* a file save_config_ini wrote with all 4 matrices
FileWritten ==
  save_config_ini_file([key \in TargetKeys \cup {"H_11"} |->
                          IF key = "H_11" THEN Eye32 ELSE HomAuto])

\* the first 8 of the 9 values of a matrix text
EightValues == Join([k \in 1..8 |-> PyStr(HomAuto.values[k])])

\* the files the operator can select; None is a path without a file
ConfigFiles ==
  {None,
   FileWritten,
   [FileWritten EXCEPT !["H_21"] = NoneText],
   [FileWritten EXCEPT !["H_21"] = <<"x">>],
   [FileWritten EXCEPT !["H_31"] = <<"x">>],
   [FileWritten EXCEPT !["H_41"] = EightValues]}

\* ImageAlignmentDialog.select_config_file: the path goes into the entry
select_config_file(file) ==
  /\ DialogOpen
  /\ config_file # file
  /\ config_file' = file
  /\ UNCHANGED <<validateVars, modelVars, refVars, ctlVars, frameVars, calibVars, reflVars, rasterVars,
                 histVars, geo_transform, dlg, saved_matrices, load_results, estimation,
                 failed_keys, warned, signalled>>

InitLoad ==
  /\ IdleValidate
  /\ last_fullframe = Ref(1)
  /\ heap = <<CameraFrame(1)>>
  /\ eventQueue = <<>>
  /\ IdleAlignment
  /\ IdleIngest
  /\ modal = <<Suspended("open_image_alignment", "", "Image Alignment", Ref(1), 0)>>
  /\ savers = [n \in SaverNames |-> NewSaver]
  /\ imwrite = "written"
  /\ IdleCalib
  /\ IdleRefl
  /\ IdleRaster
  /\ IdleModel
  /\ IdleRef
  /\ IdleControl
  /\ geo_transform = None
  /\ dlg \in HomographyAssignments
  /\ config_file \in ConfigFiles
  /\ saved_matrices = None
  /\ load_results = NotCalled
  /\ estimation = NotCalled
  /\ failed_keys = {}
  /\ warned = {}
  /\ signalled = {}

NextLoad ==
  \/ \E file \in ConfigFiles : select_config_file(file)
  \/ load_config_file

SpecLoad == InitLoad /\ [][NextLoad]_vars

\* the text of a section reads as None or as exactly 9 floats
ReadsAsMatrix(text) ==
  \/ text = NoneText
  \/ /\ Len(Split(text)) = 9
     /\ \A k \in 1..9 : FloatOf(Split(text)[k]).ok

\* the matrix a readable section stands for
MatrixRead(text) ==
  IF text = NoneText THEN None
  ELSE Matrix("float64", [k \in 1..9 |-> FloatOf(Split(text)[k]).val])

\* C28: load_config_ini is all-or-nothing for H_21, H_31, H_41: when the file
\* is missing or the value of one of them does not read as 9 floats, none of
\* the three is changed; otherwise all three are replaced by what the file
\* holds.
C28_AllOrNothing ==
  [][load_config_file
       => IF config_file = None
             \/ \E key \in TargetKeys : ~ReadsAsMatrix(config_file[key])
          THEN \A key \in TargetKeys : dlg'[key] = dlg[key]
          ELSE \A key \in TargetKeys : dlg'[key] = MatrixRead(config_file[key])]_vars

\* C27: after an estimation run that reports its results (automatic or from
\* point pairs), the stored homography of each target band equals the result
\* reported for it; a band reported failed has no stored transform.
C27_StoredEqualsReported ==
  [][(estimation' # estimation /\ estimation' # NotCalled /\ ~estimation'[1].raised)
       => \A key \in TargetKeys \cap DOMAIN estimation'[1].results :
            Get(dlg', key) = estimation'[1].results[key]]_vars

\* C26: the shared slot never regresses: a step that leaves a camera frame in
\* the slot after another camera frame leaves one that is not older, the
\* restore of the swap in save_reflectance_if_active and save_raster_if_active
\* after a modal dialog included.
C26_SlotNeverRegresses ==
  [][(/\ last_fullframe # None
      /\ last_fullframe' # None
      /\ IsCameraFrame(Deref(heap, last_fullframe))
      /\ IsCameraFrame(Deref(heap', last_fullframe')))
       => Deref(heap', last_fullframe').id >= Deref(heap, last_fullframe).id]_vars

\* ------------------------------------------------------------------------
\* SpecSplit: live alignment with an accepted geo_transform of any
\* assignment of the keys, on the frames as they arrive
\* ------------------------------------------------------------------------
\* the assignments on_apply_clicked accepts
AcceptedAssignments ==
  {hm \in HomographyAssignments : \E key \in DOMAIN hm : hm[key] # None}

InitSplit ==
  /\ IdleValidate
  /\ last_fullframe = None
  /\ heap = [k \in 1..MaxFrames |-> CameraFrame(k)]
  /\ eventQueue = [k \in 1..MaxFrames |-> Ref(k)]
  /\ IdleAlignment
  /\ IdleIngest
  /\ IdleSave
  /\ IdleCalib
  /\ IdleRefl
  /\ IdleRaster
  /\ IdleModel
  /\ IdleRef
  /\ IdleControl
  /\ geo_transform \in AcceptedAssignments
  /\ dlg = None
  /\ config_file = None
  /\ saved_matrices = None
  /\ load_results = NotCalled
  /\ estimation = NotCalled
  /\ failed_keys = {}
  /\ warned = {}
  /\ signalled = {}

NextSplit ==
  \/ on_frame_received
  \/ update_frames
  \/ \E state \in BOOLEAN : toggle_image_alignment(state)

SpecSplit == InitSplit /\ [][NextSplit]_vars

\* columns lo..hi-1 of the pixels px of array id
Segment(px, id, lo, hi) == [px |-> px, id |-> id, lo |-> lo, hi |-> hi]

\* the columns an array is made of, left to right: columns of a camera frame
\* where it is one, a slice of one or a stack of such, other pixels elsewhere
RECURSIVE Segments(_)
Segments(array) ==
  IF array.src[1] = "camera"
  THEN <<Segment("camera", array.id, 0, array.shape[2])>>
  ELSE IF array.src[1] = "columns" /\ array.src[2] = <<"camera">>
  THEN <<Segment("camera", array.id, array.src[3], array.src[3] + array.shape[2])>>
  ELSE IF array.src[1] = "hstack"
  THEN Segments(array.src[2][1]) \o Segments(array.src[2][2])
         \o Segments(array.src[2][3]) \o Segments(array.src[2][4])
  ELSE <<Segment(array.src[1], array.id, 0, array.shape[2])>>

\* adjacent runs of columns of one camera frame joined
RECURSIVE Joined(_)
Joined(segs) ==
  IF Len(segs) < 2 THEN segs
  ELSE LET h == Head(segs)
           rest == Joined(Tail(segs))
       IN IF h.px = "camera" /\ rest[1].px = "camera" /\ h.id = rest[1].id
             /\ h.hi = rest[1].lo
          THEN <<[h EXCEPT !.hi = rest[1].hi]>> \o Tail(rest)
          ELSE <<h>> \o rest

\* no target band has a homography
NoBandWarped(homography_matrices) ==
  \A i \in TargetBands : Get(homography_matrices, HKey(i)) = None

\* C24: for every 480 x 2560 frame, the 4 bands of width 640 joined
\* horizontally, as the live alignment path does when no band is warped, are
\* the frame again: same shape, same columns of the same frame in order.
C24_SplitRejoinExact ==
  [][(AlignsFrame /\ NoBandWarped(geo_transform))
       => LET frame == Deref(heap, last_fullframe)
              aligned == Deref(heap', last_aligned_frame')
          IN /\ aligned.shape = frame.shape
             /\ Joined(Segments(aligned)) = Segments(frame)]_vars

\* the second frame went through apply_alignment without a warped band
C24_Witness ==
  /\ alignment_enabled
  /\ geo_transform # None
  /\ NoBandWarped(geo_transform)
  /\ last_fullframe # None
  /\ last_aligned_frame # None
  /\ Deref(heap, last_aligned_frame).src[1] = "hstack"
  /\ Deref(heap, last_aligned_frame).id = 2
  /\ Joined(Segments(Deref(heap, last_aligned_frame))) = <<Segment("camera", 2, 0, FULL_W)>>

============================================================================
